---- MODULE Spec2Model ----
(***************************************************************************)
(* A model of find_tagged_resources.py: the ARN parser (parse_arn), the    *)
(* existence verifier (verify_resource_exists), the deletion dispatcher    *)
(* (delete_resource), the discovery (find_iam_roles_by_tag,                *)
(* find_resources_by_tag) and the interactive driver (main); and of        *)
(* terraform.py: the context manager terraform_apply with terraform_output *)
(* and execute.                                                            *)
(*                                                                         *)
(* Strings are sequences of tokens.  A token is one of the two delimiters  *)
(* ":" and "/", or a word: a non-empty run of characters that holds        *)
(* neither delimiter (ARNs are single-line identifiers, so no line breaks).*)
(***************************************************************************)
EXTENDS Integers, Sequences, FiniteSets, TLC

VARIABLES
    ppc,        \* parse_arn: "start" before the call, "done" after it
    pin,        \* parse_arn: the argument
    pout,       \* parse_arn: the returned value
    vpc,        \* verify_resource_exists: "idle", "start", "called", "done"
    varn,       \* verify_resource_exists: the arn argument
    vcall,      \* the read call issued to the provider, NoCall before it
    vreads,     \* the number of read calls this invocation has issued
    vreply,     \* what the provider did with the read call
    vresult,    \* the value verify_resource_exists returned
    dpc,        \* delete_resource: the statement it is at
    darn,       \* delete_resource: the arn argument
    dlist,      \* the paginator's state: the rest of the current page, ...
    dcount,     \* the counters of the composite deletions (object_count, ...)
    dlisted,    \* history: the items the provider has listed, by listing
    calls,      \* history: the mutating calls and prompts issued, in order
    dused,      \* history: whether any provider call was issued
    draised,    \* history: the exceptions raised inside delete_resource
    dresult,    \* the (success, message) pair delete_resource returned
    mpc,        \* main and the functions it calls: the statement they are at
    args,       \* the command line: --no-verify, --show-deleted, --delete
    mlist,      \* the paginator of list_roles, then of get_resources
    iam_roles,  \* find_iam_roles_by_tag: roles
    resources,  \* find_resources_by_tag: resources
    seen_arns,  \* find_resources_by_tag: seen_arns
    existing,   \* main: existing
    deleted,    \* main: deleted
    walk,       \* main: the position in existing of the deletion walk
    retries,    \* the responses to the current prompt that were none of y/n/q
    prompts,    \* history: the "Delete this resource?" prompts and the answers
    deletes,    \* history: the delete_resource calls that returned
    verified,   \* history: the ARNs verify_resource_exists was called with,
                \* and the value it returned for each
    indexed,    \* history: the ARNs the tag index returned
    printed,    \* history: the ARNs listed as existing resources
    shown,      \* history: the ARNs listed as stale/deleted resources
    tcaller,    \* the fixture of plugin.py that entered terraform_apply, if
                \* one did, and the value of its keep_after
    tpc,        \* terraform_apply: the statement it is at
    targs,      \* terraform_apply: destroy_after, json_output, enable_trace
    tnext,      \* terraform_apply: the position in cmds of the loop
    tlog,       \* history: the calls of execute
    tpending,   \* the exception raised inside the try statement, if any
    tyielded,   \* what terraform_apply yielded to the with-body, if it did
    tresult     \* how the with statement ended

parseVars == <<ppc, pin, pout>>
verifyVars == <<vpc, varn, vcall, vreads, vreply, vresult>>
deleteVars == <<dpc, darn, dlist, dcount, dlisted, calls, dused, draised, dresult>>
mainVars == <<mpc, args, mlist, iam_roles, resources, seen_arns, existing, deleted,
              walk, retries, prompts, deletes, verified, indexed, printed, shown>>
tfVars == <<tcaller, tpc, targs, tnext, tlog, tpending, tyielded, tresult>>
vars == <<parseVars, verifyVars, deleteVars, mainVars, tfVars>>

------------------------------------------------------------------------------
(* Bounds of the parser's inputs *)
MaxFieldLen == 2
MaxResFields == 2
(* Bounds of a paged listing: the items it returns in all, and its pages *)
MaxItems == 2
MaxPages == 2
(* Bound of the responses to one prompt that are none of y, n and q *)
MaxRetries == 1
(* Bound of the roles list_roles returns *)
MaxRoles == 1

------------------------------------------------------------------------------
(* parse_arn *)

Colon == ":"
Slash == "/"
\* The value of resource_type when the resource part has no delimiter
\* (Python's None); no word of an input is this token.
NoneType == <<"<None>">>

\* str.find(ch): the first index of ch in s, 0 when absent (Python: -1;
\* indices here start at 1).
FindFrom(s, ch, from) ==
    IF \E i \in from..Len(s) : s[i] = ch
    THEN CHOOSE i \in from..Len(s) : s[i] = ch /\ \A j \in from..(i - 1) : s[j] # ch
    ELSE 0

Find(s, ch) == FindFrom(s, ch, 1)

NoMatch == [matched |-> FALSE]

\* Lines 44-56: the split of the resource part.
SplitAtColonFirst(resource) ==
    LET colon_pos == Find(resource, Colon)
        slash_pos == Find(resource, Slash)
    IN  IF colon_pos # 0
        THEN [resource_type |-> SubSeq(resource, 1, colon_pos - 1),
              resource_id |-> SubSeq(resource, colon_pos + 1, Len(resource))]
        ELSE IF slash_pos # 0
        THEN [resource_type |-> SubSeq(resource, 1, slash_pos - 1),
              resource_id |-> SubSeq(resource, slash_pos + 1, Len(resource))]
        ELSE [resource_type |-> NoneType, resource_id |-> resource]

SplitResource(resource) ==
    LET colon_pos == Find(resource, Colon)
        slash_pos == Find(resource, Slash)
    IN  IF colon_pos # 0 /\ (slash_pos = 0 \/ colon_pos < slash_pos)
        THEN [resource_type |-> SubSeq(resource, 1, colon_pos - 1),
              resource_id |-> SubSeq(resource, colon_pos + 1, Len(resource))]
        ELSE IF slash_pos # 0
        THEN [resource_type |-> SubSeq(resource, 1, slash_pos - 1),
              resource_id |-> SubSeq(resource, slash_pos + 1, Len(resource))]
        ELSE [resource_type |-> NoneType, resource_id |-> resource]

\* Lines 29-32: the regular expression
\*   ^arn:([^:]+):([^:]+):([^:]*):([^:]*):(.+)$
\* The fields are colon-free and colon-delimited, so the match is the one
\* that cuts at the first colons.
ParseArn(arn) ==
    IF ~(Len(arn) >= 2 /\ arn[1] = "arn" /\ arn[2] = Colon) THEN NoMatch
    ELSE
    LET p2 == FindFrom(arn, Colon, 3)
        p3 == IF p2 = 0 THEN 0 ELSE FindFrom(arn, Colon, p2 + 1)
        p4 == IF p3 = 0 THEN 0 ELSE FindFrom(arn, Colon, p3 + 1)
        p5 == IF p4 = 0 THEN 0 ELSE FindFrom(arn, Colon, p4 + 1)
    IN  IF p5 = 0 \/ p2 = 3 \/ p3 = p2 + 1 \/ p5 = Len(arn) THEN NoMatch
        ELSE
        LET resource == SubSeq(arn, p5 + 1, Len(arn))
            split == SplitResource(resource)
        IN  [matched |-> TRUE,
             partition |-> SubSeq(arn, 3, p2 - 1),
             service |-> SubSeq(arn, p2 + 1, p3 - 1),
             region |-> SubSeq(arn, p3 + 1, p4 - 1),
             account |-> SubSeq(arn, p4 + 1, p5 - 1),
             resource |-> resource,
             resource_type |-> split.resource_type,
             resource_id |-> split.resource_id]

------------------------------------------------------------------------------
(* The inputs of the parser: every string is the join by ":" of its          *)
(* colon-free fields, so the inputs are enumerated field by field.           *)

RECURSIVE SeqsUpTo(_, _)
SeqsUpTo(S, n) ==
    IF n = 0 THEN {<<>>}
    ELSE LET shorter == SeqsUpTo(S, n - 1)
         IN  shorter \cup {Append(s, x) : s \in {t \in shorter : Len(t) = n - 1}, x \in S}

RECURSIVE Join(_)
Join(fields) ==
    IF Len(fields) = 0 THEN <<>>
    ELSE IF Len(fields) = 1 THEN fields[1]
    ELSE fields[1] \o <<Colon>> \o Join(Tail(fields))

FirstFields == {<<"arn">>, <<"x">>, <<>>}
HeaderFields == {<<"x", Slash>>, <<>>}
ResFields == SeqsUpTo({"x", Slash}, MaxFieldLen)

HeaderSeqs == UNION {[1..n -> HeaderFields] : n \in 0..4}
ResSeqs == UNION {[1..n -> ResFields] : n \in 0..MaxResFields}

ParseInputs ==
    {Join(<<f>> \o h \o r) : f \in FirstFields, h \in HeaderSeqs, r \in ResSeqs}

------------------------------------------------------------------------------
(* ARNs of the resource kinds the program dispatches on *)

\* arn:aws:<service>:<region>:<account>:<resource part>
Arn(service, region, account, res) ==
    <<"arn", Colon, "aws", Colon, service, Colon>> \o region \o <<Colon>>
        \o account \o <<Colon>> \o res

\* The words verify_resource_exists and delete_resource compare the service
\* field with, and one they do not know.
Services ==
    {"ec2", "rds", "elasticloadbalancing", "lambda", "dynamodb", "s3",
     "secretsmanager", "iam", "logs", "events", "sns", "sqs", "autoscaling",
     "route53", "kms", "elasticache", "es", "opensearch", "glue"}

\* The words they compare the resource type with, and one they do not know.
TypeWords ==
    {"instance", "security-group", "security-group-rule", "vpc", "subnet",
     "internet-gateway", "route-table", "network-acl", "key-pair", "volume",
     "snapshot", "image", "elastic-ip", "eip-allocation", "natgateway",
     "network-interface", "vpc-endpoint", "vpc-flow-log",
     "db", "cluster", "subgrp", "pg", "secgrp",
     "loadbalancer", "targetgroup", "listener", "function", "table", "secret",
     "role", "policy", "instance-profile", "user", "log-group", "rule",
     "autoScalingGroup", "launchConfiguration", "hostedzone", "key",
     "subnetgroup", "domain", "widget"}

\* Resource parts: type/id, type:id, and a bare id.
ResourceParts ==
    {<<t, Slash, "id1">> : t \in TypeWords}
        \cup {<<t, Colon, "id1">> : t \in {"log-group", "function", "db", "widget"}}
        \cup {<<"id1">>}

\* Global services carry an empty region in their ARNs.
RegionOf(service) == IF service \in {"s3", "iam", "route53"} THEN <<>> ELSE <<"r1">>

Unparseable == {<<"id1">>, <<"arn", Colon, "aws", Colon, "ec2">>}

\* s3, sns and sqs ARNs are not dispatched on the resource type.
PartsOf(service) ==
    IF service \in {"s3", "sns", "sqs"}
    THEN {<<"id1">>, <<"widget", Slash, "id1">>}
    ELSE ResourceParts

AllArns ==
    UNION {{Arn(s, RegionOf(s), <<"1">>, res) : res \in PartsOf(s)} : s \in Services}
        \cup Unparseable

------------------------------------------------------------------------------
(* verify_resource_exists *)

NoCall == [api |-> "none", arg |-> <<>>, kind |-> "none"]

\* Lines 76-270: the read call of a (service, resource type) pair: the API,
\* how it addresses the resource ("id": the short resource id, "arn": the
\* raw ARN, "queue_url": the URL built at lines 220-222), and what the code
\* does with the response.  api "none" is a `return True` without a call.
Read(api, addr, kind) == [api |-> api, addr |-> addr, kind |-> kind]
NoRead == [api |-> "none", addr |-> "none", kind |-> "none"]

VerifyReadAlways(service, resource_type) == Read("get_resource", "arn", "plain")
VerifyRead(service, resource_type) ==
    CASE service = <<"ec2">> ->
        (CASE resource_type = <<"instance">> -> Read("describe_instances", "id", "instance")
           [] resource_type = <<"security-group">> -> Read("describe_security_groups", "id", "plain")
           [] resource_type = <<"security-group-rule">> -> Read("describe_security_group_rules", "id", "plain")
           [] resource_type = <<"vpc">> -> Read("describe_vpcs", "id", "plain")
           [] resource_type = <<"subnet">> -> Read("describe_subnets", "id", "plain")
           [] resource_type = <<"internet-gateway">> -> Read("describe_internet_gateways", "id", "plain")
           [] resource_type = <<"route-table">> -> Read("describe_route_tables", "id", "plain")
           [] resource_type = <<"network-acl">> -> Read("describe_network_acls", "id", "plain")
           [] resource_type = <<"key-pair">> -> Read("describe_key_pairs", "id", "plain")
           [] resource_type = <<"volume">> -> Read("describe_volumes", "id", "plain")
           [] resource_type = <<"snapshot">> -> Read("describe_snapshots", "id", "plain")
           [] resource_type = <<"image">> -> Read("describe_images", "id", "plain")
           [] resource_type = <<"elastic-ip">> \/ resource_type = <<"eip-allocation">> ->
                Read("describe_addresses", "id", "plain")
           [] resource_type = <<"natgateway">> -> Read("describe_nat_gateways", "id", "natgateway")
           [] resource_type = <<"network-interface">> -> Read("describe_network_interfaces", "id", "plain")
           [] resource_type = <<"vpc-endpoint">> -> Read("describe_vpc_endpoints", "id", "plain")
           [] resource_type = <<"vpc-flow-log">> -> Read("describe_flow_logs", "id", "nonempty")
           [] OTHER -> NoRead)
      [] service = <<"rds">> ->
        (CASE resource_type = <<"db">> -> Read("describe_db_instances", "id", "plain")
           [] resource_type = <<"cluster">> -> Read("describe_db_clusters", "id", "plain")
           [] resource_type = <<"subgrp">> -> Read("describe_db_subnet_groups", "id", "plain")
           [] resource_type = <<"pg">> -> Read("describe_db_parameter_groups", "id", "plain")
           [] resource_type = <<"secgrp">> -> Read("describe_db_security_groups", "id", "plain")
           [] OTHER -> NoRead)
      [] service = <<"elasticloadbalancing">> ->
        (CASE resource_type = <<"loadbalancer">> -> Read("describe_load_balancers", "arn", "plain")
           [] resource_type = <<"targetgroup">> -> Read("describe_target_groups", "arn", "plain")
           [] resource_type = <<"listener">> -> Read("describe_listeners", "arn", "plain")
           [] OTHER -> NoRead)
      [] service = <<"lambda">> ->
        (CASE resource_type = <<"function">> -> Read("get_function", "id", "plain")
           [] OTHER -> NoRead)
      [] service = <<"dynamodb">> ->
        (CASE resource_type = <<"table">> -> Read("describe_table", "id", "plain")
           [] OTHER -> NoRead)
      [] service = <<"s3">> -> Read("head_bucket", "id", "plain")
      [] service = <<"secretsmanager">> ->
        (CASE resource_type = <<"secret">> -> Read("describe_secret", "arn", "plain")
           [] OTHER -> NoRead)
      [] service = <<"iam">> ->
        (CASE resource_type = <<"role">> -> Read("get_role", "id", "plain")
           [] resource_type = <<"policy">> -> Read("get_policy", "arn", "plain")
           [] resource_type = <<"instance-profile">> -> Read("get_instance_profile", "id", "plain")
           [] resource_type = <<"user">> -> Read("get_user", "id", "plain")
           [] OTHER -> NoRead)
      [] service = <<"logs">> ->
        (CASE resource_type = <<"log-group">> -> Read("describe_log_groups", "id", "loggroup")
           [] OTHER -> NoRead)
      [] service = <<"events">> ->
        (CASE resource_type = <<"rule">> -> Read("describe_rule", "id", "plain")
           [] OTHER -> NoRead)
      [] service = <<"sns">> -> Read("get_topic_attributes", "arn", "plain")
      [] service = <<"sqs">> -> Read("get_queue_attributes", "queue_url", "plain")
      [] service = <<"autoscaling">> ->
        (CASE resource_type = <<"autoScalingGroup">> -> Read("describe_auto_scaling_groups", "id", "nonempty")
           [] resource_type = <<"launchConfiguration">> -> Read("describe_launch_configurations", "id", "nonempty")
           [] OTHER -> NoRead)
      [] service = <<"route53">> ->
        (CASE resource_type = <<"hostedzone">> -> Read("get_hosted_zone", "id", "plain")
           [] OTHER -> NoRead)
      [] service = <<"kms">> ->
        (CASE resource_type = <<"key">> -> Read("describe_key", "id", "kmskey")
           [] OTHER -> NoRead)
      [] service = <<"elasticache">> ->
        (CASE resource_type = <<"cluster">> -> Read("describe_cache_clusters", "id", "plain")
           [] resource_type = <<"subnetgroup">> -> Read("describe_cache_subnet_groups", "id", "plain")
           [] OTHER -> NoRead)
      [] service = <<"es">> \/ service = <<"opensearch">> ->
        (CASE resource_type = <<"domain">> -> Read("describe_domain", "id", "plain")
           [] OTHER -> NoRead)
      [] OTHER -> NoRead

\* Lines 222 and 593: f"https://sqs.{region}.amazonaws.com/{account}/{queue_name}"
QueueUrl(parsed) ==
    <<"https://sqs.">> \o parsed.region \o <<".amazonaws.com/">> \o parsed.account
        \o <<Slash>> \o parsed.resource_id

\* The argument a call addresses the resource with.
Address(addr, arn, parsed) ==
    CASE addr = "id" -> parsed.resource_id
      [] addr = "arn" -> arn
      [] addr = "queue_url" -> QueueUrl(parsed)

\* The states the provider reports.
InstanceStates == {"pending", "running", "shutting-down", "terminated", "stopping", "stopped"}
NatGatewayStates == {"pending", "failed", "available", "deleting", "deleted"}
KeyStates ==
    {"Creating", "Enabled", "Disabled", "PendingDeletion", "PendingImport",
     "PendingReplicaDeletion", "Unavailable", "Updating"}

\* What a successful read call returns: the number of records in the
\* response list, the state of the first one, and (log groups) whether one
\* of them bears exactly the name asked for.
Reply(n, state, exact) == [outcome |-> "ok", n |-> n, state |-> state, exact |-> exact, code |-> ""]
NoReply == [outcome |-> "none", n |-> 0, state |-> "", exact |-> FALSE, code |-> ""]
Raised(outcome, code) == [outcome |-> outcome, n |-> 0, state |-> "", exact |-> FALSE, code |-> code]

Replies(kind) ==
    CASE kind = "instance" -> {Reply(0, "", FALSE)} \cup {Reply(1, s, FALSE) : s \in InstanceStates}
      [] kind = "natgateway" -> {Reply(0, "", FALSE)} \cup {Reply(1, s, FALSE) : s \in NatGatewayStates}
      [] kind = "kmskey" -> {Reply(1, s, FALSE) : s \in KeyStates}
      [] kind = "nonempty" -> {Reply(0, "", FALSE), Reply(1, "", FALSE)}
      [] kind = "loggroup" -> {Reply(0, "", FALSE), Reply(1, "", FALSE), Reply(1, "", TRUE)}
      [] OTHER -> {Reply(1, "", FALSE)}

\* Lines 85, 115, 248: the states reported as absent.
InstanceGoneNoShuttingDown == {"terminated"}
InstanceGone == {"terminated", "shutting-down"}
NatGatewayGone == {"deleted", "deleting"}
KeyGone == {"PendingDeletion", "Disabled"}

\* The value returned when the read call returned `reply`.
VerifyOk(kind, reply) ==
    CASE kind = "instance" -> IF reply.n = 0 THEN FALSE ELSE reply.state \notin InstanceGone
      [] kind = "natgateway" -> IF reply.n > 0 THEN reply.state \notin NatGatewayGone ELSE FALSE
      [] kind = "kmskey" -> reply.state \notin KeyGone
      [] kind = "nonempty" -> reply.n > 0
      [] kind = "loggroup" -> reply.exact
      [] OTHER -> TRUE

\* Lines 277-308.
not_found_codes ==
    {"ResourceNotFoundException", "NotFoundException", "NoSuchEntity",
     "InvalidParameterValue", "DBInstanceNotFound", "DBClusterNotFoundFault",
     "DBSubnetGroupNotFoundFault", "LoadBalancerNotFound", "TargetGroupNotFound",
     "InvalidGroup.NotFound", "InvalidSecurityGroupRuleId.NotFound",
     "InvalidVpcID.NotFound", "InvalidSubnetID.NotFound",
     "InvalidInternetGatewayID.NotFound", "InvalidRouteTableID.NotFound",
     "InvalidNetworkAclID.NotFound", "InvalidKeyPair.NotFound",
     "InvalidVolume.NotFound", "InvalidSnapshot.NotFound", "InvalidAMIID.NotFound",
     "InvalidAllocationID.NotFound", "NatGatewayNotFound",
     "InvalidNetworkInterfaceID.NotFound", "InvalidVpcEndpointId.NotFound",
     "NoSuchBucket", "NoSuchHostedZone", "CacheClusterNotFound",
     "CacheSubnetGroupNotFoundFault", "ResourceNotFoundFault", "404"}

\* Provider error codes outside the list; "" is a response without a code
\* (line 275's default).
OtherCodes == {"AccessDenied", "UnauthorizedOperation", "Throttling", "InternalFailure", ""}
ErrorCodes == not_found_codes \cup OtherCodes

\* Lines 274-312: the value returned on a ClientError.
VerifyOnClientErrorAbsent(error_code) == FALSE
VerifyOnClientErrorExists(error_code) == TRUE
VerifyOnClientError(error_code) ==
    IF error_code \in not_found_codes THEN FALSE ELSE TRUE

\* Lines 313-315: the value returned on any other exception.
VerifyOnException == TRUE

IdleVerify ==
    /\ vpc = "idle"
    /\ varn = <<>>
    /\ vcall = NoCall
    /\ vreads = 0
    /\ vreply = NoReply
    /\ vresult = TRUE

LeaveVerify ==
    /\ vpc' = "idle"
    /\ varn' = <<>>
    /\ vcall' = NoCall
    /\ vreads' = 0
    /\ vreply' = NoReply
    /\ vresult' = TRUE

\* The state of the verifier as find_resources_by_tag calls it.
EnterVerify(arn) ==
    /\ vpc' = "start"
    /\ varn' = arn
    /\ vcall' = NoCall
    /\ vreads' = 0
    /\ vreply' = NoReply
    /\ vresult' = TRUE

\* Lines 67-270, up to the read call: parse, dispatch, and either return
\* True or issue the read call.
VerifyBegin ==
    /\ vpc = "start"
    /\ LET parsed == ParseArn(varn)
           read == IF parsed.matched
                   THEN VerifyRead(parsed.service, parsed.resource_type)
                   ELSE NoRead
       IN  IF read.api = "none"
           THEN /\ vresult' = TRUE
                /\ vpc' = "done"
                /\ UNCHANGED <<vcall, vreads>>
           ELSE /\ vcall' = [api |-> read.api,
                             arg |-> Address(read.addr, varn, parsed),
                             kind |-> read.kind]
                /\ vreads' = vreads + 1
                /\ vpc' = "called"
                /\ UNCHANGED vresult
    /\ UNCHANGED <<varn, vreply>>
    /\ UNCHANGED <<tfVars, parseVars, deleteVars, mainVars>>

\* The read call returns.
VerifyReadOk ==
    /\ vpc = "called"
    /\ \E reply \in Replies(vcall.kind) :
        /\ vreply' = reply
        /\ vresult' = VerifyOk(vcall.kind, reply)
    /\ vpc' = "done"
    /\ UNCHANGED <<varn, vcall, vreads>>
    /\ UNCHANGED <<tfVars, parseVars, deleteVars, mainVars>>

\* The read call raises ClientError.
VerifyReadClientError ==
    /\ vpc = "called"
    /\ \E code \in ErrorCodes :
        /\ vreply' = Raised("ClientError", code)
        /\ vresult' = VerifyOnClientError(code)
    /\ vpc' = "done"
    /\ UNCHANGED <<varn, vcall, vreads>>
    /\ UNCHANGED <<tfVars, parseVars, deleteVars, mainVars>>

\* The read call, or the reading of its response, raises another exception.
VerifyReadException ==
    /\ vpc = "called"
    /\ vreply' = Raised("Exception", "")
    /\ vresult' = VerifyOnException
    /\ vpc' = "done"
    /\ UNCHANGED <<varn, vcall, vreads>>
    /\ UNCHANGED <<tfVars, parseVars, deleteVars, mainVars>>

------------------------------------------------------------------------------
(* delete_resource *)

\* What delete_resource does for a (service, resource type) pair:
\*   "call":   one provider call, then `return True, text`;
\*   "refuse": `return False, text` without a call;
\*   "role", "profile", "rule", "zone", "bucket": the composite deletions.
OneCall(api, addr, text) == [kind |-> "call", api |-> api, addr |-> addr, text |-> text]
RefuseByCall(text, detail) == [kind |-> "call", api |-> "delete", addr |-> "arn", text |-> text]
Refuse(text, detail) == [kind |-> "refuse", api |-> "none", addr |-> "none", text |-> text, detail |-> detail]
Composite(kind) == [kind |-> kind, api |-> "none", addr |-> "id", text |-> ""]

\* Lines 334-668.
DeleteDispatch(service, resource_type) ==
    CASE service = <<"ec2">> ->
        (CASE resource_type = <<"instance">> -> OneCall("terminate_instances", "id", "Instance termination initiated")
           [] resource_type = <<"security-group">> -> OneCall("delete_security_group", "id", "Security group deleted")
           [] resource_type = <<"security-group-rule">> ->
                Refuse("Security group rules must be deleted via security group", <<>>)
           [] resource_type = <<"vpc">> -> OneCall("delete_vpc", "id", "VPC deleted")
           [] resource_type = <<"subnet">> -> OneCall("delete_subnet", "id", "Subnet deleted")
           [] resource_type = <<"internet-gateway">> ->
                Refuse("Internet gateway must be detached from VPC first", <<>>)
           [] resource_type = <<"route-table">> -> OneCall("delete_route_table", "id", "Route table deleted")
           [] resource_type = <<"network-acl">> -> OneCall("delete_network_acl", "id", "Network ACL deleted")
           [] resource_type = <<"key-pair">> -> OneCall("delete_key_pair", "id", "Key pair deleted")
           [] resource_type = <<"volume">> -> OneCall("delete_volume", "id", "Volume deleted")
           [] resource_type = <<"snapshot">> -> OneCall("delete_snapshot", "id", "Snapshot deleted")
           [] resource_type = <<"image">> -> OneCall("deregister_image", "id", "AMI deregistered")
           [] resource_type = <<"elastic-ip">> \/ resource_type = <<"eip-allocation">> ->
                OneCall("release_address", "id", "Elastic IP released")
           [] resource_type = <<"natgateway">> -> OneCall("delete_nat_gateway", "id", "NAT Gateway deletion initiated")
           [] resource_type = <<"network-interface">> -> OneCall("delete_network_interface", "id", "Network interface deleted")
           [] resource_type = <<"vpc-endpoint">> -> OneCall("delete_vpc_endpoints", "id", "VPC endpoint deleted")
           [] resource_type = <<"vpc-flow-log">> -> OneCall("delete_flow_logs", "id", "VPC flow log deleted")
           [] OTHER -> Refuse("Unknown EC2 resource type", resource_type))
      [] service = <<"rds">> ->
        (CASE resource_type = <<"db">> -> OneCall("delete_db_instance", "id", "RDS instance deletion initiated")
           [] resource_type = <<"cluster">> -> OneCall("delete_db_cluster", "id", "RDS cluster deletion initiated")
           [] resource_type = <<"subgrp">> -> OneCall("delete_db_subnet_group", "id", "DB subnet group deleted")
           [] resource_type = <<"pg">> -> OneCall("delete_db_parameter_group", "id", "DB parameter group deleted")
           [] OTHER -> Refuse("Unknown RDS resource type", resource_type))
      [] service = <<"elasticloadbalancing">> ->
        (CASE resource_type = <<"loadbalancer">> -> OneCall("delete_load_balancer", "arn", "Load balancer deleted")
           [] resource_type = <<"targetgroup">> -> OneCall("delete_target_group", "arn", "Target group deleted")
           [] resource_type = <<"listener">> -> OneCall("delete_listener", "arn", "Listener deleted")
           [] OTHER -> Refuse("Unknown ELB resource type", resource_type))
      [] service = <<"lambda">> ->
        (CASE resource_type = <<"function">> -> OneCall("delete_function", "id", "Lambda function deleted")
           [] OTHER -> Refuse("Unknown Lambda resource type", resource_type))
      [] service = <<"dynamodb">> ->
        (CASE resource_type = <<"table">> -> OneCall("delete_table", "id", "DynamoDB table deleted")
           [] OTHER -> Refuse("Unknown DynamoDB resource type", resource_type))
      [] service = <<"s3">> -> Composite("bucket")
      [] service = <<"secretsmanager">> ->
        (CASE resource_type = <<"secret">> -> OneCall("delete_secret", "arn", "Secret deleted")
           [] OTHER -> Refuse("Unknown Secrets Manager resource type", resource_type))
      [] service = <<"iam">> ->
        (CASE resource_type = <<"role">> -> Composite("role")
           [] resource_type = <<"policy">> -> OneCall("delete_policy", "arn", "IAM policy deleted")
           [] resource_type = <<"instance-profile">> -> Composite("profile")
           [] OTHER -> Refuse("Unknown IAM resource type", resource_type))
      [] service = <<"logs">> ->
        (CASE resource_type = <<"log-group">> -> OneCall("delete_log_group", "id", "Log group deleted")
           [] OTHER -> Refuse("Unknown CloudWatch Logs resource type", resource_type))
      [] service = <<"events">> ->
        (CASE resource_type = <<"rule">> -> Composite("rule")
           [] OTHER -> Refuse("Unknown EventBridge resource type", resource_type))
      [] service = <<"sns">> -> OneCall("delete_topic", "arn", "SNS topic deleted")
      [] service = <<"sqs">> -> OneCall("delete_queue", "queue_url", "SQS queue deleted")
      [] service = <<"autoscaling">> ->
        (CASE resource_type = <<"autoScalingGroup">> ->
                OneCall("delete_auto_scaling_group", "id", "Auto Scaling group deletion initiated")
           [] resource_type = <<"launchConfiguration">> ->
                OneCall("delete_launch_configuration", "id", "Launch configuration deleted")
           [] OTHER -> Refuse("Unknown Auto Scaling resource type", resource_type))
      [] service = <<"route53">> ->
        (CASE resource_type = <<"hostedzone">> -> Composite("zone")
           [] OTHER -> Refuse("Unknown Route53 resource type", resource_type))
      [] service = <<"kms">> ->
        (CASE resource_type = <<"key">> -> OneCall("schedule_key_deletion", "id", "KMS key scheduled for deletion (7 days)")
           [] OTHER -> Refuse("Unknown KMS resource type", resource_type))
      [] service = <<"elasticache">> ->
        (CASE resource_type = <<"cluster">> -> OneCall("delete_cache_cluster", "id", "ElastiCache cluster deletion initiated")
           [] resource_type = <<"subnetgroup">> -> OneCall("delete_cache_subnet_group", "id", "ElastiCache subnet group deleted")
           [] OTHER -> Refuse("Unknown ElastiCache resource type", resource_type))
      [] service = <<"es">> \/ service = <<"opensearch">> ->
        (CASE resource_type = <<"domain">> -> OneCall("delete_domain", "id", "OpenSearch domain deletion initiated")
           [] OTHER -> Refuse("Unknown OpenSearch resource type", resource_type))
      [] OTHER -> Refuse("Unknown service", service)

\* The first statement of each composite deletion.
FirstPc(kind) ==
    CASE kind = "call" -> "simple"
      [] kind = "role" -> "role_list_attached"
      [] kind = "profile" -> "prof_get"
      [] kind = "rule" -> "rule_list"
      [] kind = "zone" -> "zone_list"
      [] kind = "bucket" -> "s3_count"

\* The (success, message) pair returned; the message is a text and the
\* values formatted into it.
Outcome(ok, text, detail) == [ok |-> ok, text |-> text, detail |-> detail]
NoOutcome == Outcome(FALSE, "", <<>>)

\* An entry of the call history: the API, the resource it addresses, the
\* items it names, and whether the call returned (TRUE) or raised (FALSE).
Call(api, target, items, ok) == [api |-> api, target |-> target, items |-> items, ok |-> ok]

\* The paginator: the items of the current page not yet processed, whether
\* the provider has more pages, and the items and pages returned so far.
NewList == [page |-> <<>>, more |-> FALSE, items |-> 0, pages |-> 0]

\* The messages provider errors and other exceptions carry.
ErrorMessages == {"msg1", "msg2"}

DParsed == ParseArn(darn)
DDispatch == DeleteDispatch(DParsed.service, DParsed.resource_type)

\* The items of a page are numbered on from the items already listed.
IdPage(from, n) == [i \in 1..n |-> from + i]

\* Whether the provider may announce a further page.
MoreChoices == IF dlist.pages + 1 < MaxPages THEN BOOLEAN ELSE {FALSE}

\* Where a paging loop continues: the next item of the page, the next page,
\* or the statement after the loop.
GotoSkipRest(rest, more, itemPc, listPc, nextPc) ==
    IF more THEN listPc ELSE nextPc
Goto(rest, more, itemPc, listPc, nextPc) ==
    IF rest # <<>> THEN itemPc ELSE IF more THEN listPc ELSE nextPc

\* The statements at which a provider call is pending.
ListPcs == {"role_list_attached", "role_list_inline", "role_list_profiles",
            "prof_get", "rule_list", "zone_list", "s3_count", "s3_list"}
ItemPcs == {"role_detach", "role_delete_inline", "role_remove_profile",
            "prof_remove", "rule_remove", "zone_change", "s3_delete_objects"}
FinalPcs == {"simple", "role_delete", "prof_delete", "rule_delete", "zone_delete",
             "s3_delete_bucket"}
CallPcs == ListPcs \cup ItemPcs \cup FinalPcs

\* The call about to be issued at a statement that issues a mutating call.
PendingByArn(ok) == Call(IF dpc = "simple" THEN DDispatch.api ELSE "delete", darn, <<>>, ok)
Pending(ok) ==
    LET id == DParsed.resource_id
        one == <<Head(dlist.page)>>
    IN  CASE dpc = "simple" -> Call(DDispatch.api, Address(DDispatch.addr, darn, DParsed), <<>>, ok)
          [] dpc = "role_detach" -> Call("detach_role_policy", id, one, ok)
          [] dpc = "role_delete_inline" -> Call("delete_role_policy", id, one, ok)
          [] dpc = "role_remove_profile" -> Call("remove_role_from_instance_profile", id, one, ok)
          [] dpc = "role_delete" -> Call("delete_role", id, <<>>, ok)
          [] dpc = "prof_remove" -> Call("remove_role_from_instance_profile", id, one, ok)
          [] dpc = "prof_delete" -> Call("delete_instance_profile", id, <<>>, ok)
          [] dpc = "rule_remove" -> Call("remove_targets", id, dlist.page, ok)
          [] dpc = "rule_delete" -> Call("delete_rule", id, <<>>, ok)
          [] dpc = "zone_change" -> Call("change_resource_record_sets", id, dlist.page, ok)
          [] dpc = "zone_delete" -> Call("delete_hosted_zone", id, <<>>, ok)
          [] dpc = "s3_delete_objects" -> Call("delete_objects", id, dlist.page, ok)
          [] dpc = "s3_delete_bucket" -> Call("delete_bucket", id, <<>>, ok)

IdleDelete ==
    /\ dpc = "idle"
    /\ darn = <<>>
    /\ dlist = NewList
    /\ dcount = <<0, 0, 0>>
    /\ dlisted = {}
    /\ calls = <<>>
    /\ dused = FALSE
    /\ draised = <<>>
    /\ dresult = NoOutcome

LeaveDelete ==
    /\ dpc' = "idle"
    /\ darn' = <<>>
    /\ dlist' = NewList
    /\ dcount' = <<0, 0, 0>>
    /\ dlisted' = {}
    /\ calls' = <<>>
    /\ dused' = FALSE
    /\ draised' = <<>>
    /\ dresult' = NoOutcome

\* The state of delete_resource as main calls it.
EnterDelete(arn) ==
    /\ dpc' = "start"
    /\ darn' = arn
    /\ dlist' = NewList
    /\ dcount' = <<0, 0, 0>>
    /\ dlisted' = {}
    /\ calls' = <<>>
    /\ dused' = FALSE
    /\ draised' = <<>>
    /\ dresult' = NoOutcome

Return(outcome) ==
    /\ dpc' = "done"
    /\ dresult' = outcome

\* Lines 324-333 and the dispatch: parse, refuse, or enter a deletion.
DeleteBegin ==
    /\ dpc = "start"
    /\ IF ~DParsed.matched
       THEN Return(Outcome(FALSE, "Cannot parse ARN", <<>>))
       ELSE IF DDispatch.kind = "refuse"
       THEN Return(Outcome(FALSE, DDispatch.text, DDispatch.detail))
       ELSE /\ dpc' = FirstPc(DDispatch.kind)
            /\ UNCHANGED dresult
    /\ UNCHANGED <<darn, dlist, dcount, dlisted, calls, dused, draised>>
    /\ UNCHANGED <<tfVars, parseVars, verifyVars, mainVars>>

\* The single call of a simple deletion returns.
SimpleCall ==
    /\ dpc = "simple"
    /\ calls' = Append(calls, Pending(TRUE))
    /\ dused' = TRUE
    /\ Return(Outcome(TRUE, DDispatch.text, <<>>))
    /\ UNCHANGED <<darn, dlist, dcount, dlisted, draised>>
    /\ UNCHANGED <<tfVars, parseVars, verifyVars, mainVars>>

\* `for page in paginator.paginate(...)`: the provider returns the next page,
\* a page `page` of which `todo` is to be processed at itemPc.
TakePage(listPc, itemPc, nextPc, page, todo, more) ==
    LET to == Goto(todo, more, itemPc, listPc, nextPc)
    IN  /\ dlist' = IF to = nextPc THEN NewList
                    ELSE [page |-> todo, more |-> more,
                          items |-> dlist.items + Len(page), pages |-> dlist.pages + 1]
        /\ dlisted' = dlisted \cup {[listing |-> listPc, item |-> page[i]] : i \in 1..Len(page)}
        /\ dpc' = to
        /\ dused' = TRUE

\* A page of a listing whose items are processed one call each.
ListIds(listPc, itemPc, nextPc) ==
    /\ dpc = listPc
    /\ \E n \in 0..(MaxItems - dlist.items), more \in MoreChoices :
        LET page == IdPage(dlist.items, n)
        IN  TakePage(listPc, itemPc, nextPc, page, page, more)
    /\ UNCHANGED <<darn, dcount, calls, dresult, draised>>
    /\ UNCHANGED <<tfVars, parseVars, verifyVars, mainVars>>

\* The call for the next item of the page returns; counter k is incremented.
ItemCall(itemPc, listPc, nextPc, k) ==
    /\ dpc = itemPc
    /\ calls' = Append(calls, Pending(TRUE))
    /\ dcount' = [dcount EXCEPT ![k] = @ + 1]
    /\ LET rest == Tail(dlist.page)
           to == Goto(rest, dlist.more, itemPc, listPc, nextPc)
       IN  /\ dlist' = IF to = nextPc THEN NewList ELSE [dlist EXCEPT !.page = rest]
           /\ dpc' = to
    /\ UNCHANGED <<darn, dlisted, dused, dresult, draised>>
    /\ UNCHANGED <<tfVars, parseVars, verifyVars, mainVars>>

\* The call for the whole batch of the page returns; counter k grows by
\* `grow`.
BatchCall(itemPc, listPc, nextPc, k, grow) ==
    /\ dpc = itemPc
    /\ calls' = Append(calls, Pending(TRUE))
    /\ dcount' = [dcount EXCEPT ![k] = @ + grow]
    /\ LET to == Goto(<<>>, dlist.more, itemPc, listPc, nextPc)
       IN  /\ dlist' = IF to = nextPc THEN NewList ELSE [dlist EXCEPT !.page = <<>>]
           /\ dpc' = to
    /\ UNCHANGED <<darn, dlisted, dused, dresult, draised>>
    /\ UNCHANGED <<tfVars, parseVars, verifyVars, mainVars>>

\* The last call of a deletion returns.
FinalCall(pc, text, detail) ==
    /\ dpc = pc
    /\ calls' = Append(calls, Pending(TRUE))
    /\ dused' = TRUE
    /\ Return(Outcome(TRUE, text, detail))
    /\ UNCHANGED <<darn, dlist, dcount, dlisted, draised>>
    /\ UNCHANGED <<tfVars, parseVars, verifyVars, mainVars>>

(* IAM role, lines 496-532 *)
RoleListAttached == ListIds("role_list_attached", "role_detach", "role_list_inline")
RoleDetach == ItemCall("role_detach", "role_list_attached", "role_list_inline", 1)
RoleListInline == ListIds("role_list_inline", "role_delete_inline", "role_list_profiles")
RoleDeleteInline == ItemCall("role_delete_inline", "role_list_inline", "role_list_profiles", 2)
RoleListProfiles == ListIds("role_list_profiles", "role_remove_profile", "role_delete")
RoleRemoveProfile == ItemCall("role_remove_profile", "role_list_profiles", "role_delete", 3)
RoleDelete == FinalCall("role_delete", "IAM role deleted", dcount)

(* Instance profile, lines 536-551: get_instance_profile is one call, not a
   paginator *)
ProfGet ==
    /\ dpc = "prof_get"
    /\ \E n \in 0..MaxItems :
        LET page == IdPage(0, n)
        IN  TakePage("prof_get", "prof_remove", "prof_delete", page, page, FALSE)
    /\ UNCHANGED <<darn, dcount, calls, dresult, draised>>
    /\ UNCHANGED <<tfVars, parseVars, verifyVars, mainVars>>
ProfRemove == ItemCall("prof_remove", "prof_get", "prof_delete", 1)
ProfDelete == FinalCall("prof_delete", "Instance profile deleted", <<dcount[1]>>)

(* EventBridge rule, lines 565-580: the targets of a page go in one call *)
RuleList == ListIds("rule_list", "rule_remove", "rule_delete")
RuleRemove == BatchCall("rule_remove", "rule_list", "rule_delete", 1, Len(dlist.page))
RuleDelete == FinalCall("rule_delete", "EventBridge rule deleted", <<dcount[1]>>)

(* Route53 hosted zone, lines 613-636 *)
\* The record sets a zone may hold: a type, and whether the record is at the
\* zone apex.
RecordKinds ==
    {[type |-> "NS", apex |-> TRUE], [type |-> "SOA", apex |-> TRUE],
     [type |-> "NS", apex |-> FALSE], [type |-> "A", apex |-> TRUE],
     [type |-> "A", apex |-> FALSE]}

\* Lines 619-626: the records of a page that go into the change batch.
Skipped(record) == record.type \in {"NS", "SOA"}
Changes(page) == SelectSeq(page, LAMBDA record : ~Skipped(record))

ZoneList ==
    /\ dpc = "zone_list"
    /\ \E n \in 0..(MaxItems - dlist.items), more \in MoreChoices :
        \E kinds \in [1..n -> RecordKinds] :
            LET page == [i \in 1..n |-> [id |-> dlist.items + i,
                                         type |-> kinds[i].type,
                                         apex |-> kinds[i].apex]]
            IN  TakePage("zone_list", "zone_change", "zone_delete", page, Changes(page), more)
    /\ UNCHANGED <<darn, dcount, calls, dresult, draised>>
    /\ UNCHANGED <<tfVars, parseVars, verifyVars, mainVars>>
ZoneChange == BatchCall("zone_change", "zone_list", "zone_delete", 1, Len(dlist.page))
ZoneDelete == FinalCall("zone_delete", "Hosted zone deleted", <<dcount[1]>>)

(* S3 bucket, lines 445-484 *)
\* A page of list_object_versions: object versions and delete markers.
ObjectPages(from, n) ==
    {[i \in 1..n |-> [id |-> from + i, marker |-> marks[i]]] : marks \in [1..n -> BOOLEAN]}

Versions(page) == SelectSeq(page, LAMBDA o : ~o.marker)
DeleteMarkers(page) == SelectSeq(page, LAMBDA o : o.marker)
Keys(objects) == [i \in 1..Len(objects) |-> objects[i].id]

\* Lines 465-475: the keys of the versions of the page, then those of its
\* delete markers.
ObjectsToDelete(page) == Keys(Versions(page)) \o Keys(DeleteMarkers(page))

\* What the user may type at a prompt, and .strip().lower() of it.
RawAnswers == {"y", " Yes ", "n", "NO", "q", "Quit", "", "maybe"}
Normalize(raw) ==
    CASE raw = " Yes " -> "yes"
      [] raw = "NO" -> "no"
      [] raw = "Quit" -> "quit"
      [] OTHER -> raw

\* Lines 453-455: counting pass; line 457 decides between the prompt and the
\* bucket's deletion.
S3Count ==
    /\ dpc = "s3_count"
    /\ \E n \in 0..(MaxItems - dlist.items), more \in MoreChoices :
        \E page \in ObjectPages(dlist.items, n) :
            LET object_count == dcount[1] + Len(Versions(page)) + Len(DeleteMarkers(page))
            IN  /\ dcount' = [dcount EXCEPT ![1] = object_count]
                /\ IF more
                   THEN /\ dlist' = [page |-> <<>>, more |-> more,
                                     items |-> dlist.items + n, pages |-> dlist.pages + 1]
                        /\ dpc' = "s3_count"
                   ELSE /\ dlist' = NewList
                        /\ dpc' = IF object_count > 0 THEN "s3_prompt" ELSE "s3_delete_bucket"
    /\ dused' = TRUE
    /\ UNCHANGED <<darn, dlisted, calls, dresult, draised>>
    /\ UNCHANGED <<tfVars, parseVars, verifyVars, mainVars>>

\* Lines 458-460: whether the typed answer confirms.
ConfirmsAlways(confirm) == TRUE
Confirms(confirm) == confirm \in {"y", "yes"}

S3Prompt ==
    /\ dpc = "s3_prompt"
    /\ \E raw \in RawAnswers :
        LET confirm == Normalize(raw)
        IN  /\ calls' = Append(calls, Call("input", <<>>, <<confirm>>, TRUE))
            /\ IF ~Confirms(confirm)
               THEN Return(Outcome(FALSE, "Bucket deletion cancelled by user", <<>>))
               ELSE /\ dpc' = "s3_list"
                    /\ UNCHANGED dresult
    /\ UNCHANGED <<darn, dlist, dcount, dlisted, dused, draised>>
    /\ UNCHANGED <<tfVars, parseVars, verifyVars, mainVars>>

\* Lines 463-480: the deleting pass lists the bucket again.
S3List ==
    /\ dpc = "s3_list"
    /\ \E n \in 0..(MaxItems - dlist.items), more \in MoreChoices :
        \E page \in ObjectPages(dlist.items, n) :
            TakePage("s3_list", "s3_delete_objects", "s3_delete_bucket",
                     Keys(page), ObjectsToDelete(page), more)
    /\ UNCHANGED <<darn, dcount, calls, dresult, draised>>
    /\ UNCHANGED <<tfVars, parseVars, verifyVars, mainVars>>
S3DeleteObjects == BatchCall("s3_delete_objects", "s3_list", "s3_delete_bucket", 2, 0)
S3DeleteBucket == FinalCall("s3_delete_bucket", "Bucket deleted", <<dcount[1]>>)

\* Lines 539-548, 569-576 and 670-674: where an exception raised at a
\* statement is caught, and what is returned.  The inner handlers of the
\* instance profile and of the event rule catch ClientError and go on to the
\* final call; the outer handlers return a failed outcome.
OnRaiseDetachTolerated(pc, kind, message) ==
    CASE kind = "ClientError" /\ pc = "role_detach" ->
            [pc |-> "role_list_inline", result |-> NoOutcome]
      [] kind = "ClientError" /\ pc \in {"prof_get", "prof_remove"} ->
            [pc |-> "prof_delete", result |-> NoOutcome]
      [] kind = "ClientError" /\ pc \in {"rule_list", "rule_remove"} ->
            [pc |-> "rule_delete", result |-> NoOutcome]
      [] kind = "ClientError" ->
            [pc |-> "done", result |-> Outcome(FALSE, "AWS Error", <<message>>)]
      [] OTHER ->
            [pc |-> "done", result |-> Outcome(FALSE, "Error", <<message>>)]
OnRaiseClientErrorOnly(pc, kind, message) ==
    IF kind = "ClientError"
    THEN [pc |-> "done", result |-> Outcome(FALSE, "AWS Error", <<message>>)]
    ELSE [pc |-> "raised", result |-> NoOutcome]
OnRaise(pc, kind, message) ==
    CASE kind = "ClientError" /\ pc \in {"prof_get", "prof_remove"} ->
            [pc |-> "prof_delete", result |-> NoOutcome]
      [] kind = "ClientError" /\ pc \in {"rule_list", "rule_remove"} ->
            [pc |-> "rule_delete", result |-> NoOutcome]
      [] kind = "ClientError" ->
            [pc |-> "done", result |-> Outcome(FALSE, "AWS Error", <<message>>)]
      [] OTHER ->
            [pc |-> "done", result |-> Outcome(FALSE, "Error", <<message>>)]

\* An entry of the history of exceptions: the statement it was raised at,
\* its class and its message.
Raise(pc, kind, message) == [at |-> pc, kind |-> kind, message |-> message]

\* The pending provider call raises: ClientError or another exception.
CallRaises ==
    /\ dpc \in CallPcs
    /\ \E kind \in {"ClientError", "Exception"}, message \in ErrorMessages :
        LET to == OnRaise(dpc, kind, message)
        IN  /\ dpc' = to.pc
            /\ dresult' = to.result
            /\ dlist' = NewList
            /\ draised' = Append(draised, Raise(dpc, kind, message))
    /\ calls' = IF dpc \in ListPcs THEN calls ELSE Append(calls, Pending(FALSE))
    /\ dused' = TRUE
    /\ UNCHANGED <<darn, dcount, dlisted>>
    /\ UNCHANGED <<tfVars, parseVars, verifyVars, mainVars>>

\* input() raises (EOFError on a closed standard input).
PromptRaises ==
    /\ dpc = "s3_prompt"
    /\ \E message \in ErrorMessages :
        LET to == OnRaise(dpc, "Exception", message)
        IN  /\ dpc' = to.pc
            /\ dresult' = to.result
            /\ draised' = Append(draised, Raise(dpc, "Exception", message))
    /\ UNCHANGED <<darn, dlist, dcount, dlisted, calls, dused>>
    /\ UNCHANGED <<tfVars, parseVars, verifyVars, mainVars>>

------------------------------------------------------------------------------
(* find_iam_roles_by_tag, find_resources_by_tag and main *)

\* The tag pair searched for (--tag-key, --tag-value).
tag_key == "k"
tag_value == "v"

Tag(key, value) == [Key |-> key, Value |-> value]

\* The tag sets a role may carry.
RoleTagSets == {{}, {Tag("k", "v")}, {Tag("k", "w")}, {Tag("j", "v")}}

\* Line 693 and 696: role_tags.get(tag_key) == tag_value, role_tags being
\* the dictionary of the listed tags.
TagMatchesKeyOnly(tags) == \E t \in tags : t.Key = tag_key
TagMatches(tags) == \E t \in tags : t.Key = tag_key /\ t.Value = tag_value

\* The role list_roles numbers i; role names are unique in an account.
RoleArn(i) == Arn("iam", <<>>, <<"1">>, <<"role", Slash, <<"r1", "r2", "r3", "r4">>[i]>>)

\* The ARNs the tag index may return, next to the roles.
IndexedArns ==
    {Arn("ec2", <<"r1">>, <<"1">>, <<"instance", Slash, "id1">>),
     Arn("s3", <<>>, <<>>, <<"id1">>),
     <<"id1">>}

Entry(arn, tags, exists) == [arn |-> arn, tags |-> tags, exists |-> exists]

Arns(entries) == [i \in 1..Len(entries) |-> entries[i].arn]

IdleMain ==
    /\ mpc = "idle"
    /\ args = [no_verify |-> FALSE, show_deleted |-> FALSE, delete |-> FALSE]
    /\ mlist = NewList
    /\ iam_roles = <<>>
    /\ resources = <<>>
    /\ seen_arns = {}
    /\ existing = <<>>
    /\ deleted = <<>>
    /\ walk = 0
    /\ retries = 0
    /\ prompts = <<>>
    /\ deletes = <<>>
    /\ verified = <<>>
    /\ indexed = <<>>
    /\ printed = <<>>
    /\ shown = <<>>

MoreRolePages == IF mlist.pages + 1 < MaxPages THEN BOOLEAN ELSE {FALSE}

\* Lines 731-733: the roles go first into resources and into seen_arns.
\* (find_iam_roles_by_tag has returned.)
AddRoles(roles) ==
    /\ resources' = resources \o roles
    /\ seen_arns' = seen_arns \cup {roles[i].arn : i \in 1..Len(roles)}

\* Lines 683-687: list_roles returns a page of roles.
RolesList ==
    /\ mpc = "roles_list"
    /\ \E n \in 0..(MaxRoles - mlist.items), more \in MoreRolePages :
        LET page == IdPage(mlist.items, n)
        IN  IF page # <<>> \/ more
            THEN /\ mlist' = [page |-> page, more |-> more,
                              items |-> mlist.items + n, pages |-> mlist.pages + 1]
                 /\ mpc' = IF page # <<>> THEN "role_tags" ELSE "roles_list"
                 /\ UNCHANGED <<resources, seen_arns>>
            ELSE /\ mlist' = NewList
                 /\ mpc' = "index_list"
                 /\ AddRoles(iam_roles)
    /\ UNCHANGED <<args, iam_roles, existing, deleted, walk, retries, prompts,
                   deletes, verified, indexed, printed, shown>>
    /\ UNCHANGED <<tfVars, parseVars, verifyVars, deleteVars>>

\* The role after the current one: the next of the page, the next page, or
\* the return of find_iam_roles_by_tag with `roles`.
NextRole(roles) ==
    LET rest == Tail(mlist.page)
    IN  IF rest # <<>> \/ mlist.more
        THEN /\ mlist' = [mlist EXCEPT !.page = rest]
             /\ mpc' = IF rest # <<>> THEN "role_tags" ELSE "roles_list"
             /\ UNCHANGED <<resources, seen_arns>>
        ELSE /\ mlist' = NewList
             /\ mpc' = "index_list"
             /\ AddRoles(roles)

\* Lines 690-701: list_role_tags returns the tags of the role.
RoleTags ==
    /\ mpc = "role_tags"
    /\ \E role_tags \in RoleTagSets :
        LET role == Head(mlist.page)
            roles == IF TagMatches(role_tags)
                     THEN Append(iam_roles, Entry(RoleArn(role), role_tags, TRUE))
                     ELSE iam_roles
        IN  /\ iam_roles' = roles
            /\ NextRole(roles)
    /\ UNCHANGED <<args, existing, deleted, walk, retries, prompts, deletes,
                   verified, indexed, printed, shown>>
    /\ UNCHANGED <<tfVars, parseVars, verifyVars, deleteVars>>

\* Lines 702-703: list_role_tags raises ClientError; the role is skipped.
RoleTagsClientError ==
    /\ mpc = "role_tags"
    /\ NextRole(iam_roles)
    /\ UNCHANGED <<args, iam_roles, existing, deleted, walk, retries, prompts,
                   deletes, verified, indexed, printed, shown>>
    /\ UNCHANGED <<tfVars, parseVars, verifyVars, deleteVars>>

\* Lines 820-828 and 859-872 in listing mode: the split into existing and
\* deleted, and what main does after find_resources_by_tag returned `found`.
ExistingAll(found) == found
Existing(found) == SelectSeq(found, LAMBDA r : r.exists)
Deleted(found) == SelectSeq(found, LAMBDA r : ~r.exists)

Report(found) ==
    LET ex == Existing(found)
        del == Deleted(found)
    IN  IF found = <<>>
        THEN /\ mpc' = "done"
             /\ UNCHANGED <<existing, deleted, walk, printed, shown>>
        ELSE /\ existing' = ex
             /\ deleted' = del
             /\ IF ex # <<>> /\ args.delete
                THEN /\ walk' = 1
                     /\ mpc' = "prompt"
                     /\ UNCHANGED <<printed, shown>>
                ELSE /\ printed' = Arns(ex)
                     /\ shown' = IF args.show_deleted /\ del # <<>> THEN Arns(del) ELSE <<>>
                     /\ mpc' = "done"
                     /\ UNCHANGED walk

\* The entry after the current one of a page of the tag index: the next of
\* the page, the next page, or the return of find_resources_by_tag.
NextIndexed(found) ==
    LET rest == Tail(mlist.page)
    IN  IF rest # <<>> \/ mlist.more
        THEN /\ mlist' = [mlist EXCEPT !.page = rest]
             /\ mpc' = IF rest # <<>> THEN "index_item" ELSE "index_list"
             /\ UNCHANGED <<existing, deleted, walk, printed, shown>>
        ELSE /\ mlist' = NewList
             /\ Report(found)

\* Lines 737-746: get_resources returns a page of the tag index.
IndexList ==
    /\ mpc = "index_list"
    /\ \E n \in 0..(MaxItems - mlist.items), more \in MoreRolePages :
        \E page \in [1..n -> IndexedArns \cup {RoleArn(1)}] :
            /\ indexed' = indexed \o page
            /\ IF page # <<>> \/ more
               THEN /\ mlist' = [page |-> page, more |-> more,
                                 items |-> mlist.items + n, pages |-> mlist.pages + 1]
                    /\ mpc' = IF page # <<>> THEN "index_item" ELSE "index_list"
                    /\ UNCHANGED <<existing, deleted, walk, printed, shown>>
               ELSE /\ mlist' = NewList
                    /\ Report(resources)
    /\ UNCHANGED <<args, iam_roles, resources, seen_arns, retries, prompts,
                   deletes, verified>>
    /\ UNCHANGED <<tfVars, parseVars, verifyVars, deleteVars>>

\* Line 749: `if arn in seen_arns`.
SeenNever(arn) == FALSE
Seen(arn) == arn \in seen_arns

\* Lines 748-751: an ARN already seen is skipped.
IndexSkip ==
    /\ mpc = "index_item"
    /\ Seen(Head(mlist.page))
    /\ NextIndexed(resources)
    /\ UNCHANGED <<args, iam_roles, resources, seen_arns, retries, prompts,
                   deletes, verified, indexed>>
    /\ UNCHANGED <<tfVars, parseVars, verifyVars, deleteVars>>

\* Line 752, verify set: verify_resource_exists is called.
IndexVerify ==
    /\ mpc = "index_item"
    /\ ~Seen(Head(mlist.page))
    /\ ~args.no_verify
    /\ EnterVerify(Head(mlist.page))
    /\ mpc' = "verifying"
    /\ UNCHANGED <<verified, indexed, args, mlist, iam_roles, resources, seen_arns, existing, deleted,
                   walk, retries, prompts, deletes, printed, shown>>
    /\ UNCHANGED <<tfVars, parseVars, deleteVars>>

\* Lines 753-758: the entry is appended with the existence found.
AppendIndexedUnseen(exists) ==
    LET arn == Head(mlist.page)
        found == Append(resources, Entry(arn, {Tag(tag_key, tag_value)}, exists))
    IN  /\ resources' = found
        /\ UNCHANGED seen_arns
        /\ NextIndexed(found)

AppendIndexedInFront(exists) ==
    LET arn == Head(mlist.page)
        found == <<Entry(arn, {Tag(tag_key, tag_value)}, exists)>> \o resources
    IN  /\ resources' = found
        /\ seen_arns' = seen_arns \cup {arn}
        /\ NextIndexed(found)

AppendIndexedAsExisting(exists) ==
    LET arn == Head(mlist.page)
        found == Append(resources, Entry(arn, {Tag(tag_key, tag_value)}, TRUE))
    IN  /\ resources' = found
        /\ seen_arns' = seen_arns \cup {arn}
        /\ NextIndexed(found)

AppendIndexed(exists) ==
    LET arn == Head(mlist.page)
        found == Append(resources, Entry(arn, {Tag(tag_key, tag_value)}, exists))
    IN  /\ resources' = found
        /\ seen_arns' = seen_arns \cup {arn}
        /\ NextIndexed(found)

\* verify_resource_exists has returned.
IndexVerified ==
    /\ mpc = "verifying"
    /\ vpc = "done"
    /\ AppendIndexed(vresult)
    /\ verified' = Append(verified, [arn |-> varn, exists |-> vresult])
    /\ LeaveVerify
    /\ UNCHANGED <<args, iam_roles, retries, prompts, deletes, indexed>>
    /\ UNCHANGED <<tfVars, parseVars, deleteVars>>

\* Line 752, --no-verify: the entry is taken to exist.
IndexNoVerify ==
    /\ mpc = "index_item"
    /\ ~Seen(Head(mlist.page))
    /\ args.no_verify
    /\ AppendIndexed(TRUE)
    /\ UNCHANGED <<args, iam_roles, retries, prompts, deletes, verified, indexed>>
    /\ UNCHANGED <<tfVars, parseVars, verifyVars, deleteVars>>

\* Nothing in find_iam_roles_by_tag, find_resources_by_tag or main catches
\* an exception of list_roles or get_resources, or an exception of
\* list_role_tags other than ClientError: the run ends with a traceback.
FindRaises ==
    /\ mpc \in {"roles_list", "role_tags", "index_list"}
    /\ mpc' = "crashed"
    /\ UNCHANGED <<args, mlist, iam_roles, resources, seen_arns, existing, deleted,
                   walk, retries, prompts, deletes, verified, indexed, printed, shown>>
    /\ UNCHANGED <<tfVars, parseVars, verifyVars, deleteVars>>

\* Lines 831 and 868-872: the resource after the current one, or the end of
\* the walk and the list of the deleted resources.
NextResource ==
    IF walk < Len(existing)
    THEN /\ walk' = walk + 1
         /\ mpc' = "prompt"
         /\ UNCHANGED shown
    ELSE /\ mpc' = "done"
         /\ shown' = IF args.show_deleted /\ deleted # <<>> THEN Arns(deleted) ELSE <<>>
         /\ UNCHANGED walk

\* Lines 840-858: what a typed response is taken for.
AnswerOf(response) ==
    CASE response \in {"y", "yes"} -> "yes"
      [] response \in {"n", "no"} -> "no"
      [] response \in {"q", "quit"} -> "quit"
      [] OTHER -> "again"

\* Lines 839-843: the user answers yes; delete_resource is called.
PromptYes ==
    /\ mpc = "prompt"
    /\ \E raw \in RawAnswers :
        /\ AnswerOf(Normalize(raw)) = "yes"
        /\ prompts' = Append(prompts, [arn |-> existing[walk].arn, at |-> walk,
                                       answer |-> AnswerOf(Normalize(raw))])
    /\ EnterDelete(existing[walk].arn)
    /\ mpc' = "deleting"
    /\ retries' = 0
    /\ UNCHANGED <<args, mlist, iam_roles, resources, seen_arns, existing, deleted,
                   walk, deletes, verified, indexed, printed, shown>>
    /\ UNCHANGED <<tfVars, parseVars, verifyVars>>

\* Lines 844-849: the outcome is printed, SUCCESS or FAILED, and the loop of
\* the prompt is left.
AfterDeleteStopsOnFailure(success) ==
    IF success THEN NextResource
    ELSE mpc' = "done" /\ UNCHANGED <<walk, shown>>
AfterDelete(success) == NextResource

\* Lines 843-849: delete_resource has returned.
DeleteReturned ==
    /\ mpc = "deleting"
    /\ dpc = "done"
    /\ deletes' = Append(deletes, [arn |-> darn, at |-> walk, ok |-> dresult.ok])
    /\ AfterDelete(dresult.ok)
    /\ LeaveDelete
    /\ UNCHANGED <<args, mlist, iam_roles, resources, seen_arns, existing, deleted,
                   retries, prompts, verified, indexed, printed>>
    /\ UNCHANGED <<tfVars, parseVars, verifyVars>>

\* Lines 850-853: the user answers no.
PromptNo ==
    /\ mpc = "prompt"
    /\ \E raw \in RawAnswers :
        /\ AnswerOf(Normalize(raw)) = "no"
        /\ prompts' = Append(prompts, [arn |-> existing[walk].arn, at |-> walk,
                                       answer |-> AnswerOf(Normalize(raw))])
    /\ NextResource
    /\ retries' = 0
    /\ UNCHANGED <<args, mlist, iam_roles, resources, seen_arns, existing, deleted,
                   deletes, verified, indexed, printed>>
    /\ UNCHANGED <<tfVars, parseVars, verifyVars, deleteVars>>

\* Lines 855-856: `return` leaves main.
QuitMovesOn == NextResource
Quit == mpc' = "done" /\ UNCHANGED <<walk, shown>>

\* Lines 854-856: the user answers quit; main returns.
PromptQuit ==
    /\ mpc = "prompt"
    /\ \E raw \in RawAnswers :
        /\ AnswerOf(Normalize(raw)) = "quit"
        /\ prompts' = Append(prompts, [arn |-> existing[walk].arn, at |-> walk,
                                       answer |-> AnswerOf(Normalize(raw))])
    /\ Quit
    /\ UNCHANGED <<args, mlist, iam_roles, resources, seen_arns, existing, deleted,
                   retries, deletes, verified, indexed, printed>>
    /\ UNCHANGED <<tfVars, parseVars, verifyVars, deleteVars>>

\* Lines 839 and 857-858: `while True` goes round again.
AskAgainMovesOn == NextResource
AskAgain == UNCHANGED <<mpc, walk, shown>>

\* Lines 857-858: any other response; the prompt is issued again.
PromptAgain ==
    /\ mpc = "prompt"
    /\ retries < MaxRetries
    /\ \E raw \in RawAnswers :
        /\ AnswerOf(Normalize(raw)) = "again"
        /\ prompts' = Append(prompts, [arn |-> existing[walk].arn, at |-> walk,
                                       answer |-> AnswerOf(Normalize(raw))])
    /\ retries' = retries + 1
    /\ AskAgain
    /\ UNCHANGED <<args, mlist, iam_roles, resources, seen_arns, existing, deleted,
                   deletes, verified, indexed, printed>>
    /\ UNCHANGED <<tfVars, parseVars, verifyVars, deleteVars>>

\* input() raises (EOFError on a closed standard input); main catches
\* nothing.
PromptCrashes ==
    /\ mpc = "prompt"
    /\ mpc' = "crashed"
    /\ UNCHANGED <<args, mlist, iam_roles, resources, seen_arns, existing, deleted,
                   walk, retries, prompts, deletes, verified, indexed, printed, shown>>
    /\ UNCHANGED <<tfVars, parseVars, verifyVars, deleteVars>>


------------------------------------------------------------------------------
(* terraform.py: terraform_apply, terraform_output and execute *)

\* Lines 44-54: cmds, by the subcommand of each.
cmds == <<"init", "get", "apply">>

\* Line 152: the return codes of a process; a negative one is the number of
\* the signal that ended it.
ExitCodes == {0, 1, -9}

\* Lines 60-64 and 79-83: the stderr argument of execute.
TraceFile(enable_trace, name) == IF enable_trace THEN name ELSE "None"

\* Lines 55-57: whether env holds TF_LOG=JSON.
TfLog(enable_trace) == enable_trace

\* Lines 117-152: one call of execute. status is "exited" when the process
\* ran and execute returned its return code, and "raised" when Popen raised
\* (no such program, no such directory): ret is then never assigned.
Execution(cmd, stdout, stderr, env, status, ret) ==
    [cmd |-> cmd, stdout |-> stdout, stderr |-> stderr, env |-> env,
     status |-> status, ret |-> ret]

\* Lines 65-67: execute as the loop over cmds calls it.
SetupExecution(cmd, status, ret) ==
    Execution(cmd, "None", TraceFile(targs.enable_trace, "tf-apply-trace.txt"),
              IF TfLog(targs.enable_trace) THEN "TF_LOG" ELSE "environ", status, ret)

\* Lines 108-109: execute as terraform_output calls it; env is not passed.
OutputExecution(status, ret) ==
    Execution("output", "PIPE", "None", "None", status, ret)

\* Lines 84-96: execute as the finally clause calls it.
DestroyExecution(status, ret) ==
    Execution("destroy", "None", TraceFile(targs.enable_trace, "tf-destroy-trace.txt"),
              IF TfLog(targs.enable_trace) THEN "TF_LOG" ELSE "environ", status, ret)

\* plugin.py, lines 132-190: the fixtures that enter terraform_apply.
Fixtures == {"service_network", "instance_profile", "jumphost"}

\* A call of terraform_apply that is not made by a fixture.
NoFixture == [fixture |-> "none", keep_after |-> FALSE]

\* plugin.py, lines 142-147, 161-166 and 185-189: the arguments the fixtures
\* pass; jumphost leaves enable_trace at its default.
FixtureArgs(keep_after) ==
    [destroy_after |-> ~keep_after, json_output |-> TRUE, enable_trace |-> FALSE]

IdleTerraform ==
    /\ tcaller = NoFixture
    /\ tpc = "idle"
    /\ targs = [destroy_after |-> TRUE, json_output |-> TRUE, enable_trace |-> FALSE]
    /\ tnext = 1
    /\ tlog = <<>>
    /\ tpending = "none"
    /\ tyielded = "nothing"
    /\ tresult = "none"

\* Lines 58 and 77: an exception inside the try statement passes control to
\* the finally clause, and is raised again after it.
ToFinallySkipped(exception) ==
    /\ tpending' = exception
    /\ tpc' = "done"
ToFinally(exception) ==
    /\ tpending' = exception
    /\ tpc' = "finally"

\* Lines 68-71: a return code other than zero raises CalledProcessError.
\* With json_output false, line 75 yields None once the last command
\* succeeded.
AfterSetupIgnoresRet(ret) ==
    IF tnext < Len(cmds)
    THEN /\ tnext' = tnext + 1
         /\ UNCHANGED <<tpc, tpending, tyielded>>
    ELSE /\ tpc' = IF targs.json_output THEN "output" ELSE "body"
         /\ tyielded' = IF targs.json_output THEN tyielded ELSE "None"
         /\ UNCHANGED <<tnext, tpending>>
AfterSetup(ret) ==
    IF ret # 0
    THEN /\ ToFinally("CalledProcessError")
         /\ UNCHANGED <<tnext, tyielded>>
    ELSE IF tnext < Len(cmds)
         THEN /\ tnext' = tnext + 1
              /\ UNCHANGED <<tpc, tpending, tyielded>>
         ELSE /\ tpc' = IF targs.json_output THEN "output" ELSE "body"
              /\ tyielded' = IF targs.json_output THEN tyielded ELSE "None"
              /\ UNCHANGED <<tnext, tpending>>

\* Lines 59-75: the next of cmds is executed and its process exits.
Setup ==
    /\ tpc = "setup"
    /\ \E ret \in ExitCodes :
        /\ tlog' = Append(tlog, SetupExecution(cmds[tnext], "exited", ret))
        /\ AfterSetup(ret)
    /\ UNCHANGED <<tcaller, targs, tresult>>
    /\ UNCHANGED <<parseVars, verifyVars, deleteVars, mainVars>>

\* Line 65 or line 109: execute raises, as Popen does when it cannot start
\* the program.
ExecuteRaises ==
    /\ tpc \in {"setup", "output"}
    /\ tlog' = Append(tlog, IF tpc = "setup"
                            THEN SetupExecution(cmds[tnext], "raised", 0)
                            ELSE OutputExecution("raised", 0))
    /\ ToFinally("OSError")
    /\ UNCHANGED <<tcaller, targs, tnext, tyielded, tresult>>
    /\ UNCHANGED <<parseVars, verifyVars, deleteVars, mainVars>>

\* Lines 72-73 and 108-114: terraform output is executed; its output is
\* parsed and yielded to the with-body.
Output ==
    /\ tpc = "output"
    /\ \E ret \in ExitCodes :
        /\ tlog' = Append(tlog, OutputExecution("exited", ret))
        /\ IF ret # 0
           THEN /\ ToFinally("CalledProcessError")
                /\ UNCHANGED tyielded
           ELSE /\ tyielded' = "dict"
                /\ tpc' = "body"
                /\ UNCHANGED tpending
    /\ UNCHANGED <<tcaller, targs, tnext, tresult>>
    /\ UNCHANGED <<parseVars, verifyVars, deleteVars, mainVars>>

\* Line 114: terraform output exited with zero and json.loads raises on what
\* it printed.
OutputNotJson ==
    /\ tpc = "output"
    /\ tlog' = Append(tlog, OutputExecution("exited", 0))
    /\ ToFinally("JSONDecodeError")
    /\ UNCHANGED <<tcaller, targs, tnext, tyielded, tresult>>
    /\ UNCHANGED <<parseVars, verifyVars, deleteVars, mainVars>>

\* Lines 73 and 75: the with-body ends and the generator is resumed after
\* the yield.
BodyReturns ==
    /\ tpc = "body"
    /\ tpc' = "finally"
    /\ UNCHANGED <<tcaller, targs, tnext, tlog, tpending, tyielded, tresult>>
    /\ UNCHANGED <<parseVars, verifyVars, deleteVars, mainVars>>

\* Lines 73 and 75: the with-body raises and the exception is thrown into
\* the generator at the yield.
BodyRaises ==
    /\ tpc = "body"
    /\ ToFinally("BodyError")
    /\ UNCHANGED <<tcaller, targs, tnext, tlog, tyielded, tresult>>
    /\ UNCHANGED <<parseVars, verifyVars, deleteVars, mainVars>>

\* The end of the finally clause: the exception that led to it, if any, is
\* raised again.
Reraise == IF tpending = "none" THEN "returned" ELSE tpending

\* Lines 84-96: the return value of execute is dropped.
AfterDestroy(ret) == Reraise

\* Lines 77-96, destroy_after set: terraform destroy is executed and its
\* process exits.
Destroy ==
    /\ tpc = "finally"
    /\ targs.destroy_after
    /\ \E ret \in ExitCodes :
        /\ tlog' = Append(tlog, DestroyExecution("exited", ret))
        /\ tresult' = AfterDestroy(ret)
    /\ tpc' = "done"
    /\ UNCHANGED <<tcaller, targs, tnext, tpending, tyielded>>
    /\ UNCHANGED <<parseVars, verifyVars, deleteVars, mainVars>>

\* Line 84: execute raises inside the finally clause; its exception is the
\* one that leaves terraform_apply.
DestroyRaises ==
    /\ tpc = "finally"
    /\ targs.destroy_after
    /\ tlog' = Append(tlog, DestroyExecution("raised", 0))
    /\ tresult' = "OSError"
    /\ tpc' = "done"
    /\ UNCHANGED <<tcaller, targs, tnext, tpending, tyielded>>
    /\ UNCHANGED <<parseVars, verifyVars, deleteVars, mainVars>>

\* Lines 77-78, destroy_after not set: nothing is executed.
NoDestroy ==
    /\ tpc = "finally"
    /\ ~targs.destroy_after
    /\ tresult' = Reraise
    /\ tpc' = "done"
    /\ UNCHANGED <<tcaller, targs, tnext, tlog, tpending, tyielded>>
    /\ UNCHANGED <<parseVars, verifyVars, deleteVars, mainVars>>

------------------------------------------------------------------------------
(* Specifications *)

IdleParse == ppc = "idle" /\ pin = <<>> /\ pout = NoMatch

\* parse_arn called on each input.
InitParse ==
    /\ ppc = "start"
    /\ pin \in ParseInputs
    /\ pout = NoMatch
    /\ IdleVerify
    /\ IdleDelete
    /\ IdleMain
    /\ IdleTerraform

Parse ==
    /\ ppc = "start"
    /\ pout' = ParseArn(pin)
    /\ ppc' = "done"
    /\ UNCHANGED <<pin, verifyVars, deleteVars, mainVars, tfVars>>

NextParse == Parse

SpecParse == InitParse /\ [][NextParse]_vars

\* verify_resource_exists called on each ARN.
InitVerify ==
    /\ IdleParse
    /\ IdleTerraform
    /\ vpc = "start"
    /\ varn \in AllArns
    /\ vcall = NoCall
    /\ vreads = 0
    /\ vreply = NoReply
    /\ vresult = TRUE
    /\ IdleDelete
    /\ IdleMain

NextVerify ==
    \/ VerifyBegin
    \/ VerifyReadOk
    \/ VerifyReadClientError
    \/ VerifyReadException

SpecVerify == InitVerify /\ [][NextVerify]_vars

\* delete_resource called on each ARN.
InitDelete ==
    /\ IdleParse
    /\ IdleTerraform
    /\ IdleVerify
    /\ dpc = "start"
    /\ darn \in AllArns
    /\ dlist = NewList
    /\ dcount = <<0, 0, 0>>
    /\ dlisted = {}
    /\ calls = <<>>
    /\ dused = FALSE
    /\ draised = <<>>
    /\ dresult = NoOutcome
    /\ IdleMain

NextDelete ==
    \/ DeleteBegin
    \/ SimpleCall
    \/ RoleListAttached
    \/ RoleDetach
    \/ RoleListInline
    \/ RoleDeleteInline
    \/ RoleListProfiles
    \/ RoleRemoveProfile
    \/ RoleDelete
    \/ ProfGet
    \/ ProfRemove
    \/ ProfDelete
    \/ RuleList
    \/ RuleRemove
    \/ RuleDelete
    \/ ZoneList
    \/ ZoneChange
    \/ ZoneDelete
    \/ S3Count
    \/ S3Prompt
    \/ S3List
    \/ S3DeleteObjects
    \/ S3DeleteBucket
    \/ CallRaises
    \/ PromptRaises

SpecDelete == InitDelete /\ [][NextDelete]_vars

\* A run of main, for every command line, with the calls it makes of
\* verify_resource_exists and of delete_resource.  The account holds roles,
\* and the tag index returns ARNs of IndexedArns: the steps of
\* delete_resource that can occur are those of these kinds of resources.
InitMain ==
    /\ IdleParse
    /\ IdleTerraform
    /\ IdleVerify
    /\ IdleDelete
    /\ mpc = "roles_list"
    /\ args \in [no_verify : BOOLEAN, show_deleted : BOOLEAN, delete : BOOLEAN]
    /\ mlist = NewList
    /\ iam_roles = <<>>
    /\ resources = <<>>
    /\ seen_arns = {}
    /\ existing = <<>>
    /\ deleted = <<>>
    /\ walk = 0
    /\ retries = 0
    /\ prompts = <<>>
    /\ deletes = <<>>
    /\ verified = <<>>
    /\ indexed = <<>>
    /\ printed = <<>>
    /\ shown = <<>>

NextMain ==
    \/ RolesList
    \/ RoleTags
    \/ RoleTagsClientError
    \/ IndexList
    \/ IndexSkip
    \/ IndexVerify
    \/ IndexVerified
    \/ IndexNoVerify
    \/ FindRaises
    \/ PromptYes
    \/ PromptNo
    \/ PromptQuit
    \/ PromptAgain
    \/ PromptCrashes
    \/ DeleteReturned
    \/ VerifyBegin
    \/ VerifyReadOk
    \/ VerifyReadClientError
    \/ VerifyReadException
    \/ DeleteBegin
    \/ SimpleCall
    \/ RoleListAttached
    \/ RoleDetach
    \/ RoleListInline
    \/ RoleDeleteInline
    \/ RoleListProfiles
    \/ RoleRemoveProfile
    \/ RoleDelete
    \/ S3Count
    \/ S3Prompt
    \/ S3List
    \/ S3DeleteObjects
    \/ S3DeleteBucket
    \/ CallRaises
    \/ PromptRaises

SpecMain == InitMain /\ [][NextMain]_vars

\* terraform_apply entered by a with statement, with each combination of its
\* flags, or by one of the fixtures, with and without --keep-after.
InitTerraform ==
    /\ IdleParse
    /\ IdleVerify
    /\ IdleDelete
    /\ IdleMain
    /\ tpc = "setup"
    /\ \/ /\ tcaller = NoFixture
          /\ targs \in [destroy_after : BOOLEAN, json_output : BOOLEAN,
                        enable_trace : BOOLEAN]
       \/ /\ tcaller \in [fixture : Fixtures, keep_after : BOOLEAN]
          /\ targs = FixtureArgs(tcaller.keep_after)
    /\ tnext = 1
    /\ tlog = <<>>
    /\ tpending = "none"
    /\ tyielded = "nothing"
    /\ tresult = "none"

NextTerraform ==
    \/ Setup
    \/ ExecuteRaises
    \/ Output
    \/ OutputNotJson
    \/ BodyReturns
    \/ BodyRaises
    \/ Destroy
    \/ DestroyRaises
    \/ NoDestroy

SpecTerraform == InitTerraform /\ [][NextTerraform]_vars

------------------------------------------------------------------------------
(* Properties of delete_resource (SpecDelete) *)

\* The invocation under way deletes a resource of this kind.
Deleting(kind) == dpc # "idle" /\ DParsed.matched /\ DDispatch.kind = kind

\* The positions of the call history at which `api` was called.
CallsOf(api) == {i \in DOMAIN calls : calls[i].api = api}

\* The items a listing has returned.
Listed(listing) == {e.item : e \in {x \in dlisted : x.listing = listing}}

\* A provider error was raised by a detach_role_policy call of a role's
\* deletion.
DetachFailed ==
    /\ Deleting("role")
    /\ \E i \in DOMAIN draised :
        draised[i].at = "role_detach" /\ draised[i].kind = "ClientError"

(* C1, as claimed: when a detach_role_policy call of a role's deletion fails
   with a provider error, the delete_role call is still attempted in that
   invocation: the invocation does not return without it. *)
C1_DeleteRoleStillAttempted ==
    (DetachFailed /\ dpc = "done") => CallsOf("delete_role") # {}

(* C1, amended: when a detach_role_policy call of a role's deletion fails
   with a provider error, the invocation ends at that call: the failed detach
   is its last call, delete_role is not called, and delete_resource returns
   (False, "AWS Error: <the provider's message>"). *)
C1_FailedDetachEndsDeletion ==
    DetachFailed =>
        /\ dpc = "done"
        /\ Len(draised) = 1
        /\ dresult = Outcome(FALSE, "AWS Error", <<draised[1].message>>)
        /\ calls # <<>>
        /\ calls[Len(calls)].api = "detach_role_policy"
        /\ ~calls[Len(calls)].ok
        /\ CallsOf("delete_role") = {}
        /\ CallsOf("delete_role_policy") = {}
        /\ CallsOf("remove_role_from_instance_profile") = {}

\* The first of two attached policies failed to detach: the second one was
\* left attached, and the role was not deleted.
C1_Witness ==
    /\ DetachFailed
    /\ dpc = "done"
    /\ Listed("role_list_attached") = {1, 2}
    /\ Len(calls) = 1
    /\ dresult = Outcome(FALSE, "AWS Error", <<"msg2">>)

\* Whether `api` was called, and returned, for `item` before position j.
CalledBefore(api, item, j) ==
    \E i \in 1..(j - 1) :
        calls[i].api = api /\ calls[i].items = <<item>> /\ calls[i].ok

(* C2: in every execution of delete_resource on an IAM role, when delete_role
   is called, detach_role_policy has been called for every attached managed
   policy listed, delete_role_policy for every inline policy listed and
   remove_role_from_instance_profile for every instance profile listed, all
   of them before the delete_role call. *)
C2_RoleEmptiedBeforeDelete ==
    Deleting("role") =>
        \A j \in CallsOf("delete_role") :
            /\ \A p \in Listed("role_list_attached") :
                CalledBefore("detach_role_policy", p, j)
            /\ \A p \in Listed("role_list_inline") :
                CalledBefore("delete_role_policy", p, j)
            /\ \A p \in Listed("role_list_profiles") :
                CalledBefore("remove_role_from_instance_profile", p, j)

\* A role with two attached policies, an inline policy and an instance
\* profile has been deleted.
C2_Witness ==
    /\ Deleting("role")
    /\ dpc = "done"
    /\ dresult.ok
    /\ CallsOf("delete_role") = {Len(calls)}
    /\ Listed("role_list_attached") = {1, 2}
    /\ Listed("role_list_inline") # {}
    /\ Listed("role_list_profiles") # {}

\* The counting pass of a bucket's deletion has finished, and the prompt, if
\* it was due, has been answered.
Counted ==
    /\ Deleting("bucket")
    /\ dpc \in {"s3_list", "s3_delete_objects", "s3_delete_bucket", "done"}
    /\ \A i \in DOMAIN draised : draised[i].at \notin {"s3_count", "s3_prompt"}

Destructive == CallsOf("delete_objects") \cup CallsOf("delete_bucket")

(* C3: delete_resource on an S3 bucket whose listing counted at least one
   object version or delete marker prompts the user exactly once, and before
   any delete_objects or delete_bucket call; when the answer is anything other
   than y or yes, no delete_objects and no delete_bucket call is made and the
   outcome is (False, "Bucket deletion cancelled by user").  For a bucket
   whose listing counted nothing there is no prompt, no delete_objects call,
   and delete_bucket is the call that follows. *)
C3_BucketConfirmation ==
    /\ Deleting("bucket") =>
        /\ Cardinality(CallsOf("input")) <= 1
        /\ \A i \in CallsOf("input") :
            /\ dcount[1] > 0
            /\ \A j \in Destructive : i < j
            /\ calls[i].items \notin {<<"y">>, <<"yes">>} =>
                /\ Destructive = {}
                /\ dpc = "done"
                /\ dresult = Outcome(FALSE, "Bucket deletion cancelled by user", <<>>)
    /\ (Counted /\ dcount[1] > 0) =>
        /\ Cardinality(CallsOf("input")) = 1
    /\ (Counted /\ dcount[1] = 0) =>
        /\ CallsOf("input") = {}
        /\ CallsOf("delete_objects") = {}
        /\ dpc = "s3_delete_bucket" \/ CallsOf("delete_bucket") = {1}

\* A bucket holding objects was emptied and deleted after one confirmation.
C3_Witness ==
    /\ Deleting("bucket")
    /\ dpc = "done"
    /\ dcount[1] = 2
    /\ CallsOf("input") = {1}
    /\ calls[1].items = <<"yes">>
    /\ CallsOf("delete_objects") # {}
    /\ CallsOf("delete_bucket") = {Len(calls)}
    /\ dresult.ok

\* The exceptions the handlers of get_instance_profile's and of
\* list_targets_by_rule's loops swallow.
Swallowed(raise) ==
    /\ raise.kind = "ClientError"
    /\ raise.at \in {"prof_get", "prof_remove", "rule_list", "rule_remove"}

(* C9, as claimed: delete_resource returns an outcome and no exception
   escapes; every provider error gives a failed outcome carrying the
   provider's message, and every unexpected error a failed outcome carrying
   its message. *)
C9_EveryErrorFails ==
    /\ dpc # "raised"
    /\ dpc = "done" =>
        \A i \in DOMAIN draised :
            /\ ~dresult.ok
            /\ dresult.text = IF draised[i].kind = "ClientError" THEN "AWS Error" ELSE "Error"
            /\ dresult.detail = <<draised[i].message>>

(* C9, amended: delete_resource returns an outcome and no exception escapes.
   A provider error gives the outcome (False, "AWS Error: <its message>"),
   except one raised by get_instance_profile or remove_role_from_instance_profile
   while an instance profile is emptied, or by list_targets_by_rule or
   remove_targets while an event rule's targets are removed: that one is
   swallowed and the final delete call follows.  An unexpected error gives the
   outcome (False, "Error: <its message>"). *)
C9_ErrorsBecomeOutcomes ==
    /\ dpc # "raised"
    /\ dpc = "done" => dresult.text # ""
    /\ \A i \in DOMAIN draised :
        LET raise == draised[i]
        IN  IF Swallowed(raise)
            THEN \/ dpc \in {"prof_delete", "rule_delete"}
                 \/ /\ dpc = "done"
                    /\ calls # <<>>
                    /\ calls[Len(calls)].api \in {"delete_instance_profile", "delete_rule"}
            ELSE /\ i = Len(draised)
                 /\ dpc = "done"
                 /\ dresult = Outcome(FALSE,
                                      IF raise.kind = "ClientError" THEN "AWS Error" ELSE "Error",
                                      <<raise.message>>)

\* A swallowed provider error with one message, then an unexpected error of
\* the final call with another: the outcome carries the latter.
C9_Witness ==
    /\ Deleting("profile")
    /\ dpc = "done"
    /\ Len(draised) = 2
    /\ draised[1] = Raise("prof_remove", "ClientError", "msg1")
    /\ draised[2] = Raise("prof_delete", "Exception", "msg2")
    /\ dresult = Outcome(FALSE, "Error", <<"msg2">>)

------------------------------------------------------------------------------
(* Properties of verify_resource_exists (SpecVerify) *)

(* C4: when the read call of verify_resource_exists raises a provider error
   whose code is not one of the not-found codes, or raises any other
   exception, verify_resource_exists returns True, whichever ARN and
   whichever read call it was. *)
C4_FailOpen ==
    (vpc = "done" /\ vreply.outcome \in {"ClientError", "Exception"}) =>
        (vreply.outcome = "ClientError" /\ vreply.code \in not_found_codes) \/ vresult = TRUE

\* get_role was refused for lack of permission, and the role is taken to
\* exist.
C4_Witness ==
    /\ vpc = "done"
    /\ vcall.api = "get_role"
    /\ vreply = Raised("ClientError", "AccessDenied")
    /\ vresult = TRUE

(* C5: when the read call of verify_resource_exists raises a provider error
   whose code is one of the not-found codes, verify_resource_exists returns
   False, whichever service and resource type issued the call. *)
C5_NotFoundIsAbsent ==
    (vpc = "done" /\ vreply.outcome = "ClientError" /\ vreply.code \in not_found_codes) =>
        vresult = FALSE

\* A not-found code of another service (NoSuchBucket, raised by get_role)
\* makes the role absent.
C5_Witness ==
    /\ vpc = "done"
    /\ vcall.api = "get_role"
    /\ vreply = Raised("ClientError", "NoSuchBucket")
    /\ vresult = FALSE

\* The read call returned a record of a resource whose ARN is of `service`
\* and `resource_type`.
Returned(service, resource_type) ==
    /\ vpc = "done"
    /\ ParseArn(varn).matched
    /\ ParseArn(varn).service = <<service>>
    /\ ParseArn(varn).resource_type = <<resource_type>>
    /\ vreply.outcome = "ok"
    /\ vreply.n > 0

(* C6: when the read call returns a record, verify_resource_exists returns
   False for an EC2 instance in state terminated or shutting-down, for a NAT
   gateway in state deleted or deleting and for a KMS key in state
   PendingDeletion or Disabled, and True for every other state of the three. *)
C6_SoftDeleted ==
    /\ Returned("ec2", "instance") =>
        (vresult = FALSE <=> vreply.state \in {"terminated", "shutting-down"})
    /\ Returned("ec2", "natgateway") =>
        (vresult = FALSE <=> vreply.state \in {"deleted", "deleting"})
    /\ Returned("kms", "key") =>
        (vresult = FALSE <=> vreply.state \in {"PendingDeletion", "Disabled"})

\* An instance that is shutting down is reported absent.
C6_Witness ==
    /\ Returned("ec2", "instance")
    /\ vcall.api = "describe_instances"
    /\ vreply.state = "shutting-down"
    /\ vresult = FALSE

------------------------------------------------------------------------------
(* Properties of parse_arn (SpecParse) *)

\* The positions of the colons of s, and the k-th of them.
ColonsOf(s) == {i \in 1..Len(s) : s[i] = Colon}
NthColon(s, k) == CHOOSE i \in ColonsOf(s) : Cardinality({j \in ColonsOf(s) : j < i}) = k - 1

\* s is arn:<partition>:<service>:<region>:<account>:<resource part> with a
\* non-empty partition, service and resource part.
WellFormed(s) ==
    /\ Cardinality(ColonsOf(s)) >= 5
    /\ NthColon(s, 1) = 2
    /\ s[1] = "arn"
    /\ NthColon(s, 2) > NthColon(s, 1) + 1
    /\ NthColon(s, 3) > NthColon(s, 2) + 1
    /\ NthColon(s, 5) < Len(s)

ResourcePart(s) == SubSeq(s, NthColon(s, 5) + 1, Len(s))

\* The positions of the delimiters of a resource part.
Delimiters(r) == {i \in 1..Len(r) : r[i] \in {Colon, Slash}}
FirstDelimiter(r) == CHOOSE i \in Delimiters(r) : \A j \in Delimiters(r) : i <= j

(* C8: for a string arn:<partition>:<service>:<region>:<account>:<resource
   part>, parse_arn splits the resource part at the first delimiter, ':' or
   '/', whichever comes first: the type is the text before it and the id all
   the text after it; without a delimiter the type is None and the id the
   whole resource part.  For any other string parse_arn returns None. *)
C8_DelimiterPrecedence ==
    ppc = "done" =>
        IF WellFormed(pin)
        THEN LET r == ResourcePart(pin)
             IN  /\ pout.matched
                 /\ pout.resource = r
                 /\ IF Delimiters(r) = {}
                    THEN pout.resource_type = NoneType /\ pout.resource_id = r
                    ELSE /\ pout.resource_type = SubSeq(r, 1, FirstDelimiter(r) - 1)
                         /\ pout.resource_id = SubSeq(r, FirstDelimiter(r) + 1, Len(r))
        ELSE pout = NoMatch

\* A resource part with a slash before a colon is split at the slash.
C8_Witness ==
    /\ ppc = "done"
    /\ pin = <<"arn", Colon, "x", Slash, Colon, "x", Slash, Colon, Colon, Colon, "x", Slash, Colon, "x">>
    /\ pout.matched
    /\ pout.resource_type = <<"x">>
    /\ pout.resource_id = <<Colon, "x">>

------------------------------------------------------------------------------
(* Properties of find_resources_by_tag and main (SpecMain) *)

\* find_iam_roles_by_tag has returned and its roles are in resources.
RolesAdded == mpc \in {"index_list", "index_item", "verifying", "prompt", "deleting", "done"}

\* The positions of resources that hold `arn`.
Holding(arn) == {i \in DOMAIN resources : resources[i].arn = arn}

(* C7: the list find_resources_by_tag builds holds an ARN found by the direct
   role enumeration exactly once, also when the tag index returns it, and an
   ARN the tag index returns several times at most once. *)
C7_NoDuplicates ==
    /\ \A i \in DOMAIN resources : Holding(resources[i].arn) = {i}
    /\ RolesAdded =>
        \A k \in DOMAIN iam_roles : Cardinality(Holding(iam_roles[k].arn)) = 1

\* The tag index returned the enumerated role, and returned it twice; the
\* list holds it once.
C7_Witness ==
    /\ mpc = "done"
    /\ Len(iam_roles) = 1
    /\ indexed = <<iam_roles[1].arn, iam_roles[1].arn>>
    /\ Arns(resources) = <<iam_roles[1].arn>>

\* The calls of delete_resource main has made: those that returned and the
\* one under way.
Invoked ==
    [k \in DOMAIN deletes |-> [arn |-> deletes[k].arn, at |-> deletes[k].at]]
        \o (IF mpc = "deleting" THEN <<[arn |-> darn, at |-> walk]>> ELSE <<>>)

(* C10: in delete mode, main calls delete_resource for a resource only if the
   resource was classified as existing and the user answered y or yes to the
   prompt for that resource, and at most once per resource; a resource
   classified as absent is never prompted for and never passed to
   delete_resource. *)
C10_DeleteOnlyConfirmedExisting ==
    /\ \A k \in DOMAIN Invoked :
        LET d == Invoked[k]
        IN  /\ args.delete
            /\ \E i \in DOMAIN resources : resources[i].arn = d.arn /\ resources[i].exists
            /\ existing[d.at].arn = d.arn
            /\ \E p \in DOMAIN prompts :
                /\ prompts[p].arn = d.arn
                /\ prompts[p].at = d.at
                /\ prompts[p].answer = "yes"
            /\ \A j \in DOMAIN Invoked : Invoked[j].arn = d.arn => j = k
    /\ \A i \in DOMAIN resources :
        ~resources[i].exists =>
            /\ \A p \in DOMAIN prompts : prompts[p].arn # resources[i].arn
            /\ \A k \in DOMAIN Invoked : Invoked[k].arn # resources[i].arn

\* Of three resources one was absent, one was declined and one deleted.
C10_Witness ==
    /\ mpc = "done"
    /\ args.delete
    /\ Len(resources) = 3
    /\ Len(existing) = 2
    /\ Len(deletes) = 1
    /\ \E p \in DOMAIN prompts : prompts[p].answer = "no"

------------------------------------------------------------------------------
(* Properties of the deletion walk of main (SpecMain) *)

\* The positions of the prompt history with this answer.
Answered(answer) == {p \in DOMAIN prompts : prompts[p].answer = answer}

(* C11: when the user answers q or quit at the prompt for the k-th existing
   resource, delete_resource is called neither for the k-th nor for a later
   resource, no further prompt is issued, and no call is made for the
   resources deleted before: delete_resource is not under way and the calls
   that returned are those answered yes before the quit. *)
C11_QuitAbandonsTheRest ==
    \A q \in Answered("quit") :
        /\ q = Len(prompts)
        /\ mpc = "done"
        /\ dpc = "idle"
        /\ calls = <<>>
        /\ \A k \in DOMAIN deletes : deletes[k].at < prompts[q].at
        /\ Len(deletes) = Cardinality(Answered("yes"))

\* The first of three resources was deleted, and the user quit at the second.
C11_Witness ==
    /\ mpc = "done"
    /\ Len(existing) = 3
    /\ Len(deletes) = 1
    /\ deletes[1].at = 1
    /\ Answered("quit") = {Len(prompts)}
    /\ prompts[Len(prompts)].at = 2

\* The answer that ended the prompt for the resource at position `at`:
\* "none" while there is none.
FinalAnswer(at) ==
    IF \E p \in DOMAIN prompts : prompts[p].at = at /\ prompts[p].answer # "again"
    THEN LET p == CHOOSE p \in DOMAIN prompts :
                    prompts[p].at = at /\ prompts[p].answer # "again"
         IN  prompts[p].answer
    ELSE "none"

(* C12: in delete mode a failed deletion does not end the walk: whatever the
   outcomes of the deletions, the walk moves on from a resource whose
   deletion has returned, the prompts follow the order of the list, and when
   main returns without a quit every existing resource has been prompted for
   and exactly those answered yes have had their delete_resource call. *)
C12_FailureDoesNotEndTheWalk ==
    /\ \A k \in DOMAIN deletes :
        /\ mpc \in {"prompt", "deleting", "done", "crashed"}
        /\ IF deletes[k].at < Len(existing)
           THEN walk > deletes[k].at
           ELSE mpc = "done"
    /\ \A p \in DOMAIN prompts :
        /\ prompts[p].at \in DOMAIN existing
        /\ prompts[p].arn = existing[prompts[p].at].arn
        /\ prompts[p].at = IF p = 1 THEN 1
                           ELSE IF prompts[p - 1].answer = "again"
                           THEN prompts[p - 1].at
                           ELSE prompts[p - 1].at + 1
    /\ (mpc = "done" /\ args.delete /\ existing # <<>> /\ Answered("quit") = {}) =>
        /\ \A at \in DOMAIN existing : FinalAnswer(at) \in {"yes", "no"}
        /\ {deletes[k].at : k \in DOMAIN deletes}
                = {at \in DOMAIN existing : FinalAnswer(at) = "yes"}

\* The deletion of the first resource failed, the second was declined and
\* the third deleted.
C12_Witness ==
    /\ mpc = "done"
    /\ Len(existing) = 3
    /\ Len(deletes) = 2
    /\ deletes[1] = [arn |-> existing[1].arn, at |-> 1, ok |-> FALSE]
    /\ deletes[2] = [arn |-> existing[3].arn, at |-> 3, ok |-> TRUE]
    /\ FinalAnswer(2) = "no"

\* The resources classified as absent.
Absent == SelectSeq(resources, LAMBDA r : ~r.exists)

(* C13: whenever --show-deleted is set and a discovered resource is
   classified as absent, the run lists every absent resource before main
   returns, in listing mode and in delete mode alike, whatever the user
   answers at the prompts. *)
C13_AbsentAlwaysListed ==
    (mpc = "done" /\ args.show_deleted /\ Absent # <<>>) => shown = Arns(Absent)

------------------------------------------------------------------------------
(* Properties of the composite deletions and of the refusals (SpecDelete) *)

\* The zone's own NS and SOA records, at the zone apex.
ApexManaged(record) == record.apex /\ record.type \in {"NS", "SOA"}

\* The positions before j of the change batches that hold `record`.
SubmittedBefore(record, j) ==
    {i \in 1..(j - 1) :
        /\ calls[i].api = "change_resource_record_sets"
        /\ \E n \in DOMAIN calls[i].items : calls[i].items[n] = record}

(* C14: when delete_resource deletes a Route53 hosted zone, every record set
   listed except the zone's NS and SOA records at the apex is submitted for
   DELETE before delete_hosted_zone is called, and the apex NS and SOA
   records are never submitted. *)
C14_AllButApexSubmitted ==
    Deleting("zone") =>
        /\ \A j \in CallsOf("delete_hosted_zone") :
            \A record \in Listed("zone_list") :
                ~ApexManaged(record) => SubmittedBefore(record, j) # {}
        /\ \A record \in Listed("zone_list") :
            ApexManaged(record) => SubmittedBefore(record, Len(calls) + 1) = {}

RemoveCalls == CallsOf("remove_role_from_instance_profile")

\* get_instance_profile raised a provider error.
ReadFailed ==
    \E i \in DOMAIN draised :
        draised[i].at = "prof_get" /\ draised[i].kind = "ClientError"

(* C15: when delete_resource deletes an instance profile,
   delete_instance_profile is called only after
   remove_role_from_instance_profile has been called for every role the
   profile holds; a failure reading the roles counts as no roles, and
   delete_instance_profile is still called. *)
C15_EveryRoleRemovedFirst ==
    Deleting("profile") =>
        /\ \A j \in CallsOf("delete_instance_profile") :
            \A role \in Listed("prof_get") :
                \E i \in RemoveCalls : i < j /\ calls[i].items = <<role>>
        /\ ReadFailed =>
            dpc = "prof_delete" \/ CallsOf("delete_instance_profile") # {}

\* delete_resource has been called with an ARN it has no deletion for.
Unsupported ==
    \/ ~DParsed.matched
    \/ DParsed.service = <<"glue">>
    \/ /\ DParsed.service = <<"ec2">>
       /\ DParsed.resource_type \in {<<"internet-gateway">>, <<"security-group-rule">>}
    \/ /\ DParsed.service \notin {<<"s3">>, <<"sns">>, <<"sqs">>}
       /\ DParsed.resource_type \in {<<"widget">>, NoneType}
    \/ /\ DParsed.service = <<"ec2">>
       /\ DParsed.resource_type \in {<<"role">>, <<"db">>, <<"hostedzone">>}

(* C16: whenever delete_resource refuses - the ARN cannot be parsed, the
   service is unknown, the resource type has no deletion under its service,
   or the type is an EC2 internet-gateway or security-group-rule - it
   returns a failed outcome with a message and issues no provider call. *)
C16_RefusalWithoutCall ==
    (dpc \notin {"idle", "start"} /\ (Unsupported \/ DDispatch.kind = "refuse")) =>
        /\ dpc = "done"
        /\ ~dresult.ok
        /\ dresult.text # ""
        /\ ~dused
        /\ calls = <<>>
        /\ draised = <<>>

\* The deletion of an internet gateway was refused.
C16_Witness ==
    /\ dpc = "done"
    /\ darn = Arn("ec2", <<"r1">>, <<"1">>, <<"internet-gateway", Slash, "id1">>)
    /\ dresult = Outcome(FALSE, "Internet gateway must be detached from VPC first", <<>>)
    /\ ~dused
    /\ calls = <<>>

------------------------------------------------------------------------------
(* SpecVerify, continued *)

\* verify_resource_exists has been called with an ARN it has no read call
\* for.
Unverifiable ==
    LET parsed == ParseArn(varn)
    IN  \/ ~parsed.matched
        \/ parsed.service = <<"glue">>
        \/ /\ parsed.service \notin {<<"s3">>, <<"sns">>, <<"sqs">>}
           /\ parsed.resource_type \in {<<"widget">>, NoneType}
        \/ /\ parsed.service = <<"ec2">>
           /\ parsed.resource_type \in {<<"role">>, <<"db">>, <<"hostedzone">>}

(* C17: verify_resource_exists returns True without issuing a read call when
   the ARN cannot be parsed, when the service is unknown, and when the
   resource type is unknown for a known service. *)
C17_UnknownIsExisting ==
    (vpc \notin {"idle", "start"} /\ Unverifiable) =>
        /\ vpc = "done"
        /\ vresult = TRUE
        /\ vreads = 0
        /\ vcall = NoCall
        /\ vreply = NoReply

\* An ARN of an unknown type of a known service is taken to exist.
C17_Witness ==
    /\ vpc = "done"
    /\ varn = Arn("rds", <<"r1">>, <<"1">>, <<"widget", Slash, "id1">>)
    /\ vresult = TRUE
    /\ vreads = 0

------------------------------------------------------------------------------
(* Properties of the existence values and of the prompts (SpecMain) *)

\* The positions of the verifier's returns for `arn`.
VerifiedAs(arn) == {k \in DOMAIN verified : verified[k].arn = arn}

\* The number of entries of resources that did not come from the tag index.
RoleEntries == Len(resources) - Len(verified)

(* C18, as claimed: with verification enabled, every entry of the list
   find_resources_by_tag builds has the existence value that
   verify_resource_exists returned for its ARN, and the verifier returned for
   that ARN once. *)
C18_EveryEntryVerified ==
    ~args.no_verify =>
        \A i \in DOMAIN resources :
            /\ Cardinality(VerifiedAs(resources[i].arn)) = 1
            /\ \A k \in VerifiedAs(resources[i].arn) :
                verified[k].exists = resources[i].exists

(* C18, amended: with verification enabled, the list find_resources_by_tag
   builds is the directly enumerated roles followed by the entries of the tag
   index in the order verify_resource_exists returned for them. An entry of
   the tag index has the existence value the verifier returned for its ARN,
   the verifier returned for that ARN once, and the value never changes; an
   enumerated role is entered as existing and verify_resource_exists is never
   called for it. The split into existing and deleted follows these values. *)
C18_IndexedEntriesVerified ==
    ~args.no_verify =>
        /\ RoleEntries \in {0, Len(iam_roles)}
        /\ RolesAdded => RoleEntries = Len(iam_roles)
        /\ \A i \in 1..RoleEntries :
            /\ resources[i] = iam_roles[i]
            /\ resources[i].exists
            /\ VerifiedAs(resources[i].arn) = {}
        /\ \A k \in DOMAIN verified :
            /\ resources[RoleEntries + k].arn = verified[k].arn
            /\ resources[RoleEntries + k].exists = verified[k].exists
            /\ VerifiedAs(verified[k].arn) = {k}
        /\ existing \in {<<>>, SelectSeq(resources, LAMBDA r : r.exists)}
        /\ deleted \in {<<>>, SelectSeq(resources, LAMBDA r : ~r.exists)}

\* A run with an enumerated role, which was not verified, and an entry of the
\* tag index the verifier found absent.
C18_Witness ==
    /\ mpc = "done"
    /\ ~args.no_verify
    /\ Len(iam_roles) = 1
    /\ Len(resources) = 2
    /\ resources[1] = iam_roles[1]
    /\ verified = <<[arn |-> resources[2].arn, exists |-> FALSE]>>
    /\ Len(deleted) = 1

\* The positions of the prompt history for the resource at position `at` of
\* the walk.
PromptsAt(at) == {p \in DOMAIN prompts : prompts[p].at = at}

\* The confirmation of a non-empty bucket is asked for at most once, and only
\* while delete_resource deletes a bucket that counted something.
BucketConfirmedOnce ==
    /\ Cardinality(CallsOf("input")) <= 1
    /\ CallsOf("input") # {} =>
        /\ mpc = "deleting"
        /\ Deleting("bucket")
        /\ dcount[1] > 0

(* C19, as claimed: in delete mode the prompt "Delete this resource?" is
   issued exactly once for each existing resource the walk reaches, whatever
   the user types; the only other prompt is the one confirmation of a
   non-empty bucket. *)
C19_PromptedExactlyOnce ==
    /\ \A at \in DOMAIN existing : Cardinality(PromptsAt(at)) <= 1
    /\ \A at \in 1..(walk - 1) : Cardinality(PromptsAt(at)) = 1
    /\ BucketConfirmedOnce

(* C19, amended: in delete mode the prompt "Delete this resource?" is issued
   for each existing resource the walk reaches until the user types one of
   y, yes, n, no, q, quit: any other response is followed by the same prompt
   for the same resource, and a recognised response is the last one for its
   resource. The only other prompt is the one confirmation of a non-empty
   bucket. *)
C19_PromptedUntilAnswered ==
    /\ \A p \in DOMAIN prompts :
        /\ prompts[p].at \in DOMAIN existing
        /\ prompts[p].arn = existing[prompts[p].at].arn
        /\ IF prompts[p].answer = "again"
           THEN IF p < Len(prompts)
                THEN prompts[p + 1].at = prompts[p].at
                ELSE mpc \in {"prompt", "crashed"} /\ walk = prompts[p].at
           ELSE \A q \in PromptsAt(prompts[p].at) : q <= p
    /\ \A at \in 1..(walk - 1) :
        Cardinality({p \in PromptsAt(at) : prompts[p].answer \in {"yes", "no"}}) = 1
    /\ BucketConfirmedOnce

\* The user mistyped at the prompt for a bucket, was asked again and answered
\* yes, and is then asked to confirm the deletion of the non-empty bucket.
C19_Witness ==
    /\ mpc = "deleting"
    /\ Deleting("bucket")
    /\ Len(prompts) = 2
    /\ prompts[1].answer = "again"
    /\ prompts[2].answer = "yes"
    /\ prompts[1].at = prompts[2].at
    /\ CallsOf("input") = {1}

------------------------------------------------------------------------------
(* Properties of terraform_apply (SpecTerraform) *)

\* The positions of the log of execute with one of the setup commands.
SetupRuns == {i \in DOMAIN tlog : tlog[i].cmd \in {"init", "get", "apply"}}

\* The process of the execution exited with a return code other than zero.
Failed(execution) == execution.status = "exited" /\ execution.ret # 0

\* The process of the execution exited with the return code zero.
Succeeded(execution) == execution.status = "exited" /\ execution.ret = 0

(* C20: terraform_apply runs init, get and apply in that order; when one of
   them exits with a non-zero code it raises CalledProcessError, runs none of
   the later setup commands and does not enter the with-body, and terraform
   output is not run; a non-zero exit of terraform destroy raises nothing.
   The with-body is entered only after all three have exited with zero. *)
C20_SetupFailureRaises ==
    /\ \A i \in SetupRuns :
        /\ i <= Len(cmds)
        /\ tlog[i].cmd = cmds[i]
        /\ \A earlier \in 1..(i - 1) : Succeeded(tlog[earlier])
        /\ Failed(tlog[i]) =>
            /\ tpending = "CalledProcessError"
            /\ tpc \in {"finally", "done"}
            /\ tyielded = "nothing"
            /\ \A later \in (i + 1)..Len(tlog) : tlog[later].cmd = "destroy"
            /\ tpc = "done" =>
                \/ tresult = "CalledProcessError"
                \/ tlog[Len(tlog)] = DestroyExecution("raised", 0)
    /\ (tpc = "body" \/ tyielded # "nothing") =>
        /\ {1, 2, 3} \subseteq SetupRuns
        /\ \A i \in SetupRuns : Succeeded(tlog[i])
    /\ \A i \in DOMAIN tlog :
        (tlog[i].cmd = "destroy" /\ tlog[i].status = "exited") =>
            /\ i = Len(tlog)
            /\ tpc = "done"
            /\ tresult = IF tpending = "none" THEN "returned" ELSE tpending

\* init succeeded and get exited with 1: apply and the with-body were
\* skipped, terraform destroy exited with 1 as well, and CalledProcessError
\* left terraform_apply.
C20_Witness ==
    /\ tpc = "done"
    /\ Len(tlog) = 3
    /\ tlog[1] = SetupExecution("init", "exited", 0)
    /\ tlog[2] = SetupExecution("get", "exited", 1)
    /\ tlog[3] = DestroyExecution("exited", 1)
    /\ tyielded = "nothing"
    /\ tresult = "CalledProcessError"

\* The positions of the log of execute with terraform destroy.
Destroys == {i \in DOMAIN tlog : tlog[i].cmd = "destroy"}

(* C21: with destroy_after true, terraform destroy is executed exactly once
   on every exit from terraform_apply - after the with-body returned or
   raised, and after init, get, apply or terraform output failed - and never
   before the first setup command was attempted; with destroy_after false it
   is never executed. The fixtures pass destroy_after = not keep_after, so
   under --keep-after they never execute terraform destroy. *)
C21_DestroyOnceOnEveryExit ==
    /\ targs.destroy_after =>
        /\ Cardinality(Destroys) <= 1
        /\ tpc = "done" => Cardinality(Destroys) = 1
        /\ \A i \in Destroys :
            /\ i = Len(tlog)
            /\ i > 1
            /\ tlog[1].cmd = "init"
            /\ tpc = "done"
    /\ ~targs.destroy_after => Destroys = {}
    /\ tcaller.fixture # "none" =>
        /\ targs.destroy_after = ~tcaller.keep_after
        /\ tcaller.keep_after => Destroys = {}
    /\ tpc = "done" => tresult # "none"

\* The service_network fixture without --keep-after: terraform output
\* failed after a successful setup, and terraform destroy was executed.
C21_Witness ==
    /\ tpc = "done"
    /\ tcaller = [fixture |-> "service_network", keep_after |-> FALSE]
    /\ Len(tlog) = 5
    /\ tlog[4] = OutputExecution("exited", 1)
    /\ Destroys = {5}
    /\ tyielded = "nothing"
    /\ tresult = "CalledProcessError"

------------------------------------------------------------------------------
(* Properties of the discovery order and of the verifier's calls (SpecMain) *)

\* The ARNs of the roles the direct enumeration found.
EnumeratedArns == {iam_roles[k].arn : k \in DOMAIN iam_roles}

\* The position in the answers of the tag index at which `arn` came first.
FirstIndexed(arn) ==
    CHOOSE n \in DOMAIN indexed :
        indexed[n] = arn /\ \A earlier \in 1..(n - 1) : indexed[earlier] # arn

(* C22: in the list find_resources_by_tag builds, every resource found by the
   direct role enumeration precedes every resource the tag index contributed,
   the roles in the order of their enumeration and the others in the order
   the tag index first returned them; the deletion walk visits the existing
   resources in the order of that list. *)
C22_RolesFirstWalkInListOrder ==
    /\ \A i \in DOMAIN resources, j \in DOMAIN resources :
        /\ (resources[i].arn \in EnumeratedArns /\ resources[j].arn \notin EnumeratedArns)
                => i < j
        /\ (i < j /\ resources[i].arn \notin EnumeratedArns)
                => /\ resources[j].arn \in {indexed[n] : n \in DOMAIN indexed}
                   /\ resources[i].arn \in {indexed[n] : n \in DOMAIN indexed}
                   /\ FirstIndexed(resources[i].arn) < FirstIndexed(resources[j].arn)
    /\ \A i \in DOMAIN resources :
        resources[i].arn \in EnumeratedArns => resources[i] = iam_roles[i]
    /\ existing \in {<<>>, SelectSeq(resources, LAMBDA r : r.exists)}
    /\ \A p \in DOMAIN prompts :
        /\ prompts[p].arn = existing[prompts[p].at].arn
        /\ prompts[p].at = IF p = 1 THEN 1
                           ELSE IF prompts[p - 1].answer = "again"
                           THEN prompts[p - 1].at
                           ELSE prompts[p - 1].at + 1
    /\ \A k \in DOMAIN deletes :
        /\ deletes[k].arn = existing[deletes[k].at].arn
        /\ \A earlier \in 1..(k - 1) : deletes[earlier].at < deletes[k].at

\* An enumerated role and two resources of the tag index, all existing: the
\* walk prompted for the role first and for the two others in their order.
C22_Witness ==
    /\ mpc = "done"
    /\ Len(iam_roles) = 1
    /\ Len(resources) = 3
    /\ existing = resources
    /\ resources[1] = iam_roles[1]
    /\ Len(prompts) = 3
    /\ \A p \in 1..3 : prompts[p].at = p /\ prompts[p].arn = resources[p].arn

\* The part of the current page of the tag index the loop has not reached.
NotReached ==
    IF mpc = "index_item" THEN mlist.page
    ELSE IF mpc = "verifying" THEN Tail(mlist.page)
    ELSE <<>>

\* The ARNs of the tag index the loop of find_resources_by_tag has reached.
Reached == {indexed[n] : n \in 1..(Len(indexed) - Len(NotReached))}

\* The number of calls of verify_resource_exists with `arn`: those that
\* returned and the one under way.
Verifications(arn) ==
    Cardinality(VerifiedAs(arn)) + (IF mpc = "verifying" /\ varn = arn THEN 1 ELSE 0)

(* C23: in a discovery run with verification enabled, verify_resource_exists
   is called exactly once for each distinct ARN of the tag index that the
   role enumeration had not found, and for no other ARN; each call issues at
   most one read call, and a read call that failed is not repeated. Without
   verification it is never called. *)
C23_VerifiedExactlyOnce ==
    /\ ~args.no_verify =>
        /\ \A arn \in Reached :
            Verifications(arn) = IF arn \in EnumeratedArns THEN 0 ELSE 1
        /\ \A k \in DOMAIN verified : verified[k].arn \in Reached
        /\ mpc = "verifying" => varn \in Reached
    /\ args.no_verify => verified = <<>> /\ vpc = "idle"
    /\ vreads <= 1
    /\ vreply.outcome \in {"ClientError", "Exception"} => vpc = "done" /\ vreads = 1
    /\ vpc # "idle" => mpc = "verifying"

\* The tag index returned an ARN twice and the ARN of the enumerated role:
\* the verifier was called once.
C23_Witness ==
    /\ mpc = "done"
    /\ ~args.no_verify
    /\ Len(iam_roles) = 1
    /\ Len(indexed) = 2
    /\ indexed[1] = indexed[2]
    /\ indexed[1] \notin EnumeratedArns
    /\ Len(verified) = 1
    /\ verified[1].arn = indexed[1]

------------------------------------------------------------------------------
(* The verifier's and the dispatcher's tables side by side (SpecDelete) *)

\* The read call verify_resource_exists issues for the ARN delete_resource
\* was called with.
DRead ==
    IF DParsed.matched
    THEN VerifyRead(DParsed.service, DParsed.resource_type)
    ELSE NoRead

\* The read call is chosen by the resource type, and not by the service
\* alone as for s3, sns and sqs.
TypeSpecific == DParsed.service \notin {<<"s3">>, <<"sns">>, <<"sqs">>}

\* The messages of the refusals for a resource type a service's branch of
\* delete_resource does not know.
UnknownTypeTexts ==
    {"Unknown EC2 resource type", "Unknown RDS resource type",
     "Unknown ELB resource type", "Unknown Lambda resource type",
     "Unknown DynamoDB resource type", "Unknown Secrets Manager resource type",
     "Unknown IAM resource type", "Unknown CloudWatch Logs resource type",
     "Unknown EventBridge resource type", "Unknown Auto Scaling resource type",
     "Unknown Route53 resource type", "Unknown KMS resource type",
     "Unknown ElastiCache resource type", "Unknown OpenSearch resource type"}

(* C24: for every (service, resource type) pair for which
   verify_resource_exists issues a type-specific read call, delete_resource
   has a deletion or a deliberate refusal of its own, and does not return the
   "unknown resource type" refusal. *)
C24_VerifiedTypesHaveDeletion ==
    (dpc = "done" /\ DRead.api # "none" /\ TypeSpecific) =>
        dresult.text \notin UnknownTypeTexts

\* The (service, resource type) pairs the raw ARN is passed for.
ByRawArn ==
    \/ /\ DParsed.service = <<"elasticloadbalancing">>
       /\ DParsed.resource_type \in {<<"loadbalancer">>, <<"targetgroup">>, <<"listener">>}
    \/ DParsed.service = <<"secretsmanager">> /\ DParsed.resource_type = <<"secret">>
    \/ DParsed.service = <<"iam">> /\ DParsed.resource_type = <<"policy">>
    \/ DParsed.service = <<"sns">>

(* C25: for every (service, resource type) pair that verify_resource_exists
   reads and delete_resource deletes, the two address the resource the same
   way: every call delete_resource makes names the resource by the value the
   verifier's read call passes - the raw ARN for a load balancer, target
   group, listener, secret, IAM policy and SNS topic, the queue URL built
   from region, account and id for SQS, and the short resource id for the
   rest. *)
C25_SameAddressing ==
    (DRead.api # "none" /\ DDispatch.kind # "refuse") =>
        /\ DDispatch.addr = DRead.addr
        /\ DRead.addr = IF ByRawArn THEN "arn"
                        ELSE IF DParsed.service = <<"sqs">> THEN "queue_url"
                        ELSE "id"
        /\ \A i \in DOMAIN calls :
            calls[i].api # "input" =>
                calls[i].target = Address(DRead.addr, darn, DParsed)

\* A queue was deleted by the URL the verifier reads it by.
C25_Witness ==
    /\ dpc = "done"
    /\ darn = Arn("sqs", <<"r1">>, <<"1">>, <<"id1">>)
    /\ DRead = Read("get_queue_attributes", "queue_url", "plain")
    /\ calls = <<Call("delete_queue",
                      <<"https://sqs.", "r1", ".amazonaws.com/", "1", Slash, "id1">>,
                      <<>>, TRUE)>>
    /\ dresult.ok

------------------------------------------------------------------------------
(* Properties of the direct role enumeration (SpecMain) *)

\* list_role_tags is being called for the first role of the current page.
ReadingTags == mpc = "role_tags"

\* The step taken from ReadingTags left the role out, or returned it with
\* tags that hold the searched pair.
RoleSkippedOrReturned ==
    \/ iam_roles' = iam_roles
    \/ \E tags \in RoleTagSets :
        /\ TagMatches(tags)
        /\ iam_roles' = Append(iam_roles, Entry(RoleArn(Head(mlist.page)), tags, TRUE))

(* C26: during the direct role enumeration a failure reading the tags of one
   role does not fail the run: whatever list_role_tags does, the role is
   skipped or - its tags holding the searched key=value pair - returned, and
   the enumeration goes on to the next listed role, to the next page, or to
   the tag index. *)
C26_TagReadFailureTolerated ==
    [][ReadingTags =>
            /\ mpc' \in {"role_tags", "roles_list", "index_list"}
            /\ RoleSkippedOrReturned
            /\ Tail(mlist.page) # <<>> =>
                    mpc' = "role_tags" /\ mlist'.page = Tail(mlist.page)]_vars

====
